---- MODULE Spec2Model ----
(***************************************************************************)
(* State-machine model of the coordination substrate of MinecraftAgents:   *)
(* the MessageBus (core/messaging.py), the BaseAgent lifecycle             *)
(* (core/base_agent.py, core/fsm.py) and the MinerBot overrides            *)
(* (agents/miner_bot.py).                                                  *)
(***************************************************************************)
EXTENDS Integers, Sequences, FiniteSets, TLC

VARIABLES
    subscribers,      \* MessageBus._subscribers: topic -> sequence of wrapper ids
    behaviour,        \* what each subscribed callback does when invoked
    history,          \* MessageBus._history
    tasks,            \* dispatch tasks submitted to MessageBus._executor
    log,              \* warning/error records written by the bus logger
    uncaught,         \* exceptions that escaped publish or a dispatch task
    state,            \* BaseAgent.state, per agent
    checkpoint,       \* the checkpoint file of each agent ("none" when absent)
    ckptWrites,       \* number of times save_checkpoint wrote the file
    locked_sectors,   \* MinerBot.locked_sectors
    global_locks,     \* MinerBot.global_locks
    mining_queue,     \* MinerBot.mining_queue
    selected_strategy,\* MinerBot.selected_strategy (its key, "none" when unset)
    calls,            \* number of transition_state calls made on each agent
    lastCall,         \* arguments of the latest transition_state call
    main,             \* position of each agent's start()/_run_loop thread
    thr,              \* position of each control thread (bus worker or caller)
    budget,           \* control operations still to be issued
    inventory,        \* MinerBot.inventory, counted in quarters of an item
    force_delivery,   \* MinerBot.force_delivery
    mcall,            \* the local variables and position of each mine() call
    world,            \* the Minecraft world: where the player can stand and
                      \* what one strategy.execute call can do
    forcing,          \* the set iterator of each thread inside a forced release
    pending_builds,   \* BuilderBot.pending_builds
    message_data      \* a dict handed to MessageValidator.validate, and the outcome

vars == << subscribers, behaviour, history, tasks, log, uncaught, state,
           checkpoint, ckptWrites, locked_sectors, global_locks, mining_queue,
           selected_strategy, calls, lastCall, main, thr, budget, inventory,
           force_delivery, mcall, world, pending_builds, message_data, forcing >>

busVars == << subscribers, behaviour, history, tasks, log, uncaught >>
agentVars == << state, checkpoint, ckptWrites, locked_sectors, global_locks,
                mining_queue, selected_strategy, calls, lastCall, main, thr,
                budget, inventory, force_delivery, mcall,
                world, pending_builds, message_data, forcing >>
callVars == << force_delivery, mcall, world, pending_builds, message_data, forcing >>
mineVars == << inventory, callVars >>

----------------------------------------------------------------------------
(* Bounds of the model *)

MaxSubs == 2        \* subscribe calls made on the bus
MaxMsgs == 1        \* messages published by external publishers
MaxOps == 3         \* control operations issued to an agent
NThreads == 2       \* threads issuing control operations concurrently
ReentryCalls == 2   \* calls made on an actor whose subscriber calls back
ReentryThreads == 2 \* threads making those calls and running the subscriber
StressThreads == 3  \* threads of the transition stress run
StressIters == 2    \* RUNNING/IDLE rounds of each stress thread
MaxQty == 10        \* largest quantity required or held when a check is evaluated
MaxWood == 2        \* largest WOOD holding when a check is evaluated
MaxMines == 1       \* mine() calls made by one miner
MineOps == 1        \* control operations issued to a working miner
MineThreads == 1    \* threads issuing them
MaxBuilds == 1      \* build commands given to the builder

(* Program constants *)

max_retries == 3
max_workers == 10

----------------------------------------------------------------------------
(* Messages *)

RequiredFields ==
    {"type", "source", "target", "timestamp", "payload", "status", "context"}

\* The kinds of value a message field can hold.  The ts_* kinds are strings.
StrKinds == {"str", "ts_utc_z", "ts_utc_offset", "ts_other_offset",
             "ts_naive", "ts_garbage"}
ValueKinds == StrKinds \cup {"int", "dict", "none"}

isinstance_str(k) == k \in StrKinds
isinstance_dict(k) == k = "dict"

\* ts.replace("Z", "+00:00")
ts_replace_Z(k) == IF k = "ts_utc_z" THEN "ts_utc_offset" ELSE k

\* datetime.fromisoformat: "error" when unparseable, else whether tzinfo is set
fromisoformat(k) ==
    CASE k \in {"ts_utc_offset", "ts_other_offset"} -> "aware"
      [] k = "ts_naive" -> "naive"
      [] OTHER -> "error"

\* MessageValidator.validate on a dict d (field name -> kind of its value):
\* TRUE when it returns True, FALSE when it raises ValueError.
validate(d) ==
    LET missing_fields == RequiredFields \ DOMAIN d
    IN  IF missing_fields # {} THEN FALSE
        ELSE IF ~isinstance_str(d["type"]) THEN FALSE
        ELSE IF ~isinstance_str(d["source"]) THEN FALSE
        ELSE IF ~isinstance_str(d["target"]) THEN FALSE
        ELSE IF ~isinstance_dict(d["payload"]) THEN FALSE
        ELSE IF ~isinstance_str(d["timestamp"]) THEN FALSE
        ELSE fromisoformat(ts_replace_Z(d["timestamp"])) = "aware"

\* Field kinds of a Message built by the dataclass with defaults
\* (timestamp = datetime.now(timezone.utc).isoformat(), status "new", context {}).
DefaultKinds ==
    [f \in RequiredFields |->
        CASE f \in {"type", "source", "target", "status"} -> "str"
          [] f = "timestamp" -> "ts_utc_offset"
          [] OTHER -> "dict"]

\* Message(type, source, target, payload), the n-th message created
Message(n, type, source, target, payload) ==
    [id |-> n, type |-> type, source |-> source, target |-> target,
     payload |-> payload, kinds |-> DefaultKinds]

\* message.__dict__ as seen by the validator
MsgDict(m) == m.kinds

\* No dict has been handed to the validator
NoData == [data |-> [f \in {} |-> "none"], result |-> "none"]

\* Whether the value of a field has the type the Message dataclass declares
\* for it: str for type, source, target, timestamp and status, Dict for
\* payload and context
declared_type(f, k) ==
    IF f \in {"payload", "context"} THEN isinstance_dict(k) ELSE isinstance_str(k)

\* A direct call MessageValidator.validate(message_data)
ValidateCall ==
    /\ message_data.result = "none"
    /\ message_data' = [message_data EXCEPT
                           !.result = IF validate(message_data.data)
                                      THEN "returned_true" ELSE "raised"]
    /\ UNCHANGED << busVars, state, checkpoint, ckptWrites, locked_sectors,
                    global_locks, mining_queue, selected_strategy, calls,
                    lastCall, main, thr, budget, inventory, force_delivery,
                    mcall, world, pending_builds, forcing >>

----------------------------------------------------------------------------
(* MessageBus *)

\* Topics callbacks subscribe to, and the topic external publishers publish on
BusTopics == {"test.topic", "other.topic"}
PublishedTopics == {"test.topic"}
Topics == BusTopics \cup {"agent.state_change.v1", "lock.acquire", "lock.release"}

CallbackIds == 1..MaxSubs
\* A callback either raises on every invocation ("fail") or may return or raise
\* on each one ("any")
Behaviours == {"fail", "any"}

\* What one invocation of a callback can do
Outcomes(b) ==
    IF b = "fail" THEN {"raise"} ELSE {"return", "raise"}

NumSubscribed == Cardinality({c \in CallbackIds : behaviour[c] # "none"})

\* MessageBus.subscribe(message_type, callback): a new wrapper is appended
subscribe(message_type, b) ==
    /\ NumSubscribed < MaxSubs
    /\ LET wrapper == NumSubscribed + 1
       IN  /\ subscribers' = [subscribers EXCEPT ![message_type] = Append(@, wrapper)]
           /\ behaviour' = [behaviour EXCEPT ![wrapper] = b]
    /\ UNCHANGED << history, tasks, log, uncaught >>

\* self._executor.submit(self._dispatch, callback, message)
NewTask(callback, message) ==
    [cb |-> callback, msg |-> message, pc |-> "queued", attempt |-> 0,
     invocations |-> 0]

\* Mutant of matching: the message's type is ignored and every subscriber of
\* every topic is taken
RECURSIVE all_subscribers(_, _)
all_subscribers(subs, topics) ==
    IF topics = {} THEN << >>
    ELSE LET tp == CHOOSE x \in topics : TRUE
         IN  subs[tp] \o all_subscribers(subs, topics \ {tp})
matching_any_topic(subs, message) == all_subscribers(subs, DOMAIN subs)

\* the callbacks publish iterates over: self._subscribers[message.type]
matching(subs, message) ==
    IF message.kinds["type"] = "str" /\ message.type \in DOMAIN subs
    THEN subs[message.type] ELSE << >>

\* MessageBus.publish, its effect on _history
publish_history(h, message) == Append(h, message)

\* MessageBus.publish, its effect on the executor's tasks
publish_tasks(tsk, subs, message) ==
    LET cbs == matching(subs, message)
    IN  tsk \o [i \in 1..Len(cbs) |-> NewTask(cbs[i], message)]

RECURSIVE publish_all_tasks(_, _, _)
publish_all_tasks(tsk, subs, msgs) ==
    IF msgs = << >> THEN tsk
    ELSE publish_all_tasks(publish_tasks(tsk, subs, Head(msgs)), subs, Tail(msgs))

Running == {i \in 1..Len(tasks) : tasks[i].pc \in {"running", "backoff"}}

\* Mutant of dispatch_validate: the validation result is ignored
dispatch_validate_skipped(t) ==
    [task |-> [t EXCEPT !.pc = "running"], logs |-> {}]

\* _dispatch, first part: validation of message.__dict__
dispatch_validate(t) ==
    IF validate(MsgDict(t.msg))
    THEN [task |-> [t EXCEPT !.pc = "running"], logs |-> {}]
    ELSE [task |-> [t EXCEPT !.pc = "dropped_invalid"],
          logs |-> {[level |-> "error", event |-> "validation_failed",
                     msg |-> t.msg.id, cb |-> t.cb, attempt |-> 0]}]

\* Mutant of dispatch_attempt: the last-attempt test is off by one
\* (attempt < max_retries), so a failing callback is invoked a 4th time
dispatch_attempt_off_by_one(t, outcome) ==
    LET called == [t EXCEPT !.invocations = @ + 1]
    IN  IF outcome = "return"
        THEN [task |-> [called EXCEPT !.pc = "ok"], logs |-> {}, escaped |-> FALSE]
        ELSE IF t.attempt < max_retries
        THEN [task |-> [called EXCEPT !.pc = "backoff", !.attempt = @ + 1],
              logs |-> {[level |-> "warning", event |-> "retry",
                         msg |-> t.msg.id, cb |-> t.cb, attempt |-> t.attempt + 1]},
              escaped |-> FALSE]
        ELSE [task |-> [called EXCEPT !.pc = "dropped_failed"],
              logs |-> {[level |-> "error", event |-> "gave_up",
                         msg |-> t.msg.id, cb |-> t.cb, attempt |-> max_retries]},
              escaped |-> FALSE]

\* Mutant of dispatch_attempt: the final failure is logged as one more retry
\* warning instead of an error
dispatch_attempt_no_error_log(t, outcome) ==
    LET called == [t EXCEPT !.invocations = @ + 1]
    IN  IF outcome = "return"
        THEN [task |-> [called EXCEPT !.pc = "ok"], logs |-> {}, escaped |-> FALSE]
        ELSE [task |-> IF t.attempt < max_retries - 1
                       THEN [called EXCEPT !.pc = "backoff", !.attempt = @ + 1]
                       ELSE [called EXCEPT !.pc = "dropped_failed"],
              logs |-> {[level |-> "warning", event |-> "retry",
                         msg |-> t.msg.id, cb |-> t.cb, attempt |-> t.attempt + 1]},
              escaped |-> FALSE]

\* _dispatch, one pass of the retry loop whose callback invocation ended in
\* `outcome`
dispatch_attempt(t, outcome) ==
    LET called == [t EXCEPT !.invocations = @ + 1]
    IN  IF outcome = "return"
        THEN [task |-> [called EXCEPT !.pc = "ok"], logs |-> {}, escaped |-> FALSE]
        ELSE IF t.attempt < max_retries - 1
        THEN [task |-> [called EXCEPT !.pc = "backoff", !.attempt = @ + 1],
              logs |-> {[level |-> "warning", event |-> "retry",
                         msg |-> t.msg.id, cb |-> t.cb, attempt |-> t.attempt + 1]},
              escaped |-> FALSE]
        ELSE [task |-> [called EXCEPT !.pc = "dropped_failed"],
              logs |-> {[level |-> "error", event |-> "gave_up",
                         msg |-> t.msg.id, cb |-> t.cb, attempt |-> max_retries]},
              escaped |-> FALSE]

\* A pool worker picks up a queued task and validates the message
DispatchStart(i) ==
    /\ tasks[i].pc = "queued"
    /\ Cardinality(Running) < max_workers
    /\ LET r == dispatch_validate(tasks[i])
       IN  /\ tasks' = [tasks EXCEPT ![i] = r.task]
           /\ log' = log \cup r.logs
    /\ UNCHANGED << subscribers, behaviour, history, uncaught >>

\* The worker invokes the callback (first attempt, or after the backoff sleep)
DispatchInvoke(i) ==
    /\ tasks[i].pc \in {"running", "backoff"}
    /\ \E outcome \in Outcomes(behaviour[tasks[i].cb]) :
         LET r == dispatch_attempt(tasks[i], outcome)
         IN  /\ tasks' = [tasks EXCEPT ![i] = r.task]
             /\ log' = log \cup r.logs
             /\ uncaught' = IF r.escaped THEN uncaught \cup {i} ELSE uncaught
    /\ UNCHANGED << subscribers, behaviour, history >>

\* The messages external publishers send: well-formed ones and ones with a
\* mistyped source field
MsgVariants == {"valid", "bad_source"}
TestMessage(n, topic, variant) ==
    LET m == Message(n, topic, "sender", "all", [info |-> "hello"])
    IN  IF variant = "valid" THEN m
        ELSE [m EXCEPT !.kinds = [@ EXCEPT !["source"] = "int"]]

NumExternal == Cardinality({i \in 1..Len(history) : history[i].source = "sender"})

\* An external publisher calls bus.publish(message)
Publish(topic, variant) ==
    /\ NumExternal < MaxMsgs
    /\ LET message == TestMessage(Len(history) + 1, topic, variant)
       IN  /\ history' = publish_history(history, message)
           /\ tasks' = publish_tasks(tasks, subscribers, message)
    /\ UNCHANGED << subscribers, behaviour, log, uncaught >>

RECURSIVE publish_all_history(_, _)
publish_all_history(h, msgs) ==
    IF msgs = << >> THEN h
    ELSE publish_all_history(publish_history(h, Head(msgs)), Tail(msgs))

----------------------------------------------------------------------------
(* Agent lifecycle *)

Agents == {"MinerBot"}
Miners == {"MinerBot", "MinerBot2"}

AgentState == {"IDLE", "RUNNING", "PAUSED", "WAITING", "STOPPED", "ERROR"}

\* Holdings are counted in quarters of an item: the recipe ratio 0.25 of
\* CRAFTING_RECIPES makes them multiples of 1/4.
Quarter == 4
Q(n) == n * Quarter

\* The materials of the model.  TORCH (ratio 0.1) is left out.
Materials == {"STONE", "COBBLESTONE", "WOOD", "WOOD_PLANKS"}
StonePool == {"STONE", "COBBLESTONE"}

\* core.utils.CRAFTING_RECIPES: item -> ingredient -> quarters of the
\* ingredient consumed per item
CRAFTING_RECIPES ==
    [item \in {"WOOD_PLANKS", "COBBLESTONE"} |->
        IF item = "WOOD_PLANKS" THEN [g \in {"WOOD"} |-> 1]
        ELSE [g \in {"STONE"} |-> Quarter]]

\* self.inventory = {}: every lookup is inventory.get(item, 0)
EmptyInventory == [m \in Materials |-> 0]

NoCheckpoint == [state |-> "none", inventory |-> EmptyInventory,
                 mining_queue |-> << >>, selected_strategy |-> "none"]

RECURSIVE SetToSeq(_)
SetToSeq(S) ==
    IF S = {} THEN << >>
    ELSE LET x == CHOOSE y \in S : TRUE IN << x >> \o SetToSeq(S \ {x})

\* Mutant of transition_new_state: a transition to ERROR is not made
transition_new_state_no_error(previous_state, new_state) ==
    IF previous_state # new_state /\ new_state # "ERROR"
    THEN new_state ELSE previous_state

\* BaseAgent.transition_state: the value of self.state after the call
transition_new_state(previous_state, new_state) ==
    IF previous_state # new_state THEN new_state ELSE previous_state

\* Mutant of state_change_msgs: the notification is published whether or not
\* the state changed
state_change_msgs_unguarded(a, n, previous_state, new_state, reason) ==
    << Message(n, "agent.state_change.v1", a, "all",
               [previous_state |-> previous_state, new_state |-> new_state,
                reason |-> reason]) >>

\* Mutant of state_change_msgs: previous_state is read after self.state was
\* assigned, so the payload carries the new state twice
state_change_msgs_stale(a, n, previous_state, new_state, reason) ==
    IF previous_state # new_state
    THEN << Message(n, "agent.state_change.v1", a, "all",
                    [previous_state |-> new_state, new_state |-> new_state,
                     reason |-> reason]) >>
    ELSE << >>

\* Mutant of state_change_msgs: the notification is published twice
state_change_msgs_twice(a, n, previous_state, new_state, reason) ==
    IF previous_state # new_state
    THEN [i \in 1..2 |->
            Message(n + i - 1, "agent.state_change.v1", a, "all",
                    [previous_state |-> previous_state, new_state |-> new_state,
                     reason |-> reason])]
    ELSE << >>

\* Mutant of state_change_msgs: previous_state is the state the actor was
\* constructed in, not the state the call found
state_change_msgs_initial(a, n, previous_state, new_state, reason) ==
    IF previous_state # new_state
    THEN << Message(n, "agent.state_change.v1", a, "all",
                    [previous_state |-> "IDLE", new_state |-> new_state,
                     reason |-> reason]) >>
    ELSE << >>

\* BaseAgent.transition_state: the notification it publishes; n is the number of
\* the next message created
state_change_msgs(a, n, previous_state, new_state, reason) ==
    IF previous_state # new_state
    THEN << Message(n, "agent.state_change.v1", a, "all",
                    [previous_state |-> previous_state,
                     new_state |-> new_state,
                     reason |-> reason]) >>
    ELSE << >>

\* MinerBot._publish_lock_event for each sector of a sequence
lock_event_msgs(a, n, event_type, sectors) ==
    [i \in 1..Len(sectors) |->
        Message(n + i - 1, event_type, a, "all", [sector |-> sectors[i]])]

\* MinerBot.transition_state, after super(): the sectors force-released
force_released(a, new_state, locked) ==
    IF a \in Miners /\ new_state \in {"STOPPED", "ERROR"} THEN locked ELSE {}

\* transition_state(new_state, reason) on agent a, as one step: the base method
\* runs under _state_lock; the MinerBot override then releases its sectors.
TransitionState(a, new_state, reason) ==
    LET previous_state == state[a]
        sc == state_change_msgs(a, Len(history) + 1, previous_state, new_state, reason)
        freed == force_released(a, new_state, locked_sectors[a])
        rel == lock_event_msgs(a, Len(history) + Len(sc) + 1, "lock.release",
                               SetToSeq(freed))
    IN  /\ state' = [state EXCEPT ![a] = transition_new_state(previous_state, new_state)]
        /\ history' = publish_all_history(history, sc \o rel)
        /\ tasks' = publish_all_tasks(tasks, subscribers, sc \o rel)
        /\ locked_sectors' = [locked_sectors EXCEPT ![a] = @ \ freed]
        /\ calls' = [calls EXCEPT ![a] = @ + 1]
        /\ lastCall' = [lastCall EXCEPT ![a] =
                          [new_state |-> new_state, reason |-> reason,
                           before |-> previous_state]]

\* BaseAgent.save_checkpoint with MinerBot._get_checkpoint_data: the record written
checkpoint_data(a) ==
    [state |-> state[a], inventory |-> inventory[a],
     mining_queue |-> mining_queue[a],
     selected_strategy |-> selected_strategy[a]]

\* BaseAgent.save_checkpoint, json.dump(data, f): the record built is written
save_checkpoint(a, data) ==
    /\ checkpoint' = [checkpoint EXCEPT ![a] = data]
    /\ ckptWrites' = [ckptWrites EXCEPT ![a] = @ + 1]

Idle == [op |-> "none", pc |-> "idle", agent |-> "none", same |-> FALSE, n |-> 0,
         data |-> NoCheckpoint]

\* BaseAgent.stop, first statement: transition_state(STOPPED, ...)
StopTransition(t, a) ==
    /\ thr[t].op = "none" /\ budget > 0
    /\ TransitionState(a, "STOPPED", "Agent received stop command")
    /\ thr' = [thr EXCEPT ![t] = [op |-> "stop", pc |-> "save", agent |-> a,
                                  same |-> (state[a] = "STOPPED"), n |-> 0,
                                  data |-> NoCheckpoint]]
    /\ budget' = budget - 1
    /\ UNCHANGED << subscribers, behaviour, log, uncaught, checkpoint, ckptWrites,
                    global_locks, mining_queue, selected_strategy, main >>

\* BaseAgent.stop, second statement: save_checkpoint() builds the data dict
\* from self.state and _get_checkpoint_data()
StopSave(t) ==
    /\ thr[t].op = "stop" /\ thr[t].pc = "save"
    /\ thr' = [thr EXCEPT ![t].pc = "write",
                          ![t].data = checkpoint_data(thr[t].agent)]
    /\ UNCHANGED << busVars, state, checkpoint, ckptWrites, locked_sectors,
                    global_locks, mining_queue, selected_strategy, calls,
                    lastCall, main, budget >>

\* save_checkpoint() of stop() or pause(): the file is opened and the data
\* dict built before is written
SaveWrite(t) ==
    /\ thr[t].op \in {"stop", "pause"} /\ thr[t].pc = "write"
    /\ save_checkpoint(thr[t].agent, thr[t].data)
    /\ thr' = [thr EXCEPT ![t] =
                  IF thr[t].n > 0 THEN [thr[t] EXCEPT !.pc = "return"] ELSE Idle]
    /\ UNCHANGED << busVars, state, locked_sectors, global_locks, mining_queue,
                    selected_strategy, calls, lastCall, main, budget >>

\* BaseAgent.pause: the test self.state == RUNNING, read without the lock
PauseCheck(t, a) ==
    /\ thr[t].op = "none" /\ budget > 0
    /\ thr' = IF state[a] = "RUNNING"
              THEN [thr EXCEPT ![t] = [op |-> "pause", pc |-> "transition",
                                       agent |-> a, same |-> FALSE, n |-> 0,
                                       data |-> NoCheckpoint]]
              ELSE thr
    /\ budget' = budget - 1
    /\ UNCHANGED << busVars, state, checkpoint, ckptWrites, locked_sectors,
                    global_locks, mining_queue, selected_strategy, calls,
                    lastCall, main >>

\* BaseAgent.pause: transition_state(PAUSED, ...)
PauseTransition(t) ==
    /\ thr[t].op = "pause" /\ thr[t].pc = "transition"
    /\ TransitionState(thr[t].agent, "PAUSED", "Agent received pause command")
    /\ thr' = [thr EXCEPT ![t].pc = "save",
                          ![t].same = (state[thr[t].agent] = "PAUSED")]
    /\ UNCHANGED << subscribers, behaviour, log, uncaught, checkpoint, ckptWrites,
                    global_locks, mining_queue, selected_strategy, main, budget >>

\* BaseAgent.pause: save_checkpoint() builds the data dict
PauseSave(t) ==
    /\ thr[t].op = "pause" /\ thr[t].pc = "save"
    /\ thr' = [thr EXCEPT ![t].pc = "write",
                          ![t].data = checkpoint_data(thr[t].agent)]
    /\ UNCHANGED << busVars, state, checkpoint, ckptWrites, locked_sectors,
                    global_locks, mining_queue, selected_strategy, calls,
                    lastCall, main, budget >>

\* BaseAgent.resume: the test self.state == PAUSED, read without the lock
ResumeCheck(t, a) ==
    /\ thr[t].op = "none" /\ budget > 0
    /\ thr' = IF state[a] = "PAUSED"
              THEN [thr EXCEPT ![t] = [op |-> "resume", pc |-> "transition",
                                       agent |-> a, same |-> FALSE, n |-> 0,
                                       data |-> NoCheckpoint]]
              ELSE thr
    /\ budget' = budget - 1
    /\ UNCHANGED << busVars, state, checkpoint, ckptWrites, locked_sectors,
                    global_locks, mining_queue, selected_strategy, calls,
                    lastCall, main >>

\* BaseAgent.resume: transition_state(RUNNING, ...)
ResumeTransition(t) ==
    /\ thr[t].op = "resume" /\ thr[t].pc = "transition"
    /\ TransitionState(thr[t].agent, "RUNNING", "Agent received resume command")
    /\ thr' = [thr EXCEPT ![t] = Idle]
    /\ UNCHANGED << subscribers, behaviour, log, uncaught, checkpoint, ckptWrites,
                    global_locks, mining_queue, selected_strategy, main, budget >>

\* MinerBot.on_manual_start
on_manual_start(t, a) ==
    /\ a \in Miners
    /\ thr[t].op = "none" /\ budget > 0
    /\ TransitionState(a, "RUNNING", "Manual start override command")
    /\ selected_strategy' = [selected_strategy EXCEPT ![a] =
                                IF @ = "none" THEN "grid" ELSE @]
    /\ mining_queue' = [mining_queue EXCEPT ![a] =
                           IF @ = << >> THEN << [MANUAL |-> 1] >> ELSE @]
    /\ budget' = budget - 1
    /\ UNCHANGED << subscribers, behaviour, log, uncaught, checkpoint, ckptWrites,
                    global_locks, main, thr >>

\* BaseAgent.load_checkpoint: the value of self.state after it, given the file
loaded_state(current, ckpt) ==
    IF ckpt.state \in {"RUNNING", "IDLE", "PAUSED"} THEN ckpt.state ELSE current

\* BaseAgent.start, first statement: load_checkpoint()
StartLoad(a) ==
    /\ main[a] = "new"
    /\ IF checkpoint[a] = NoCheckpoint
       THEN UNCHANGED << state, inventory, mining_queue, selected_strategy >>
       ELSE /\ state' = [state EXCEPT ![a] = loaded_state(@, checkpoint[a])]
            /\ inventory' = [inventory EXCEPT ![a] = checkpoint[a].inventory]
            /\ mining_queue' = [mining_queue EXCEPT ![a] = checkpoint[a].mining_queue]
            /\ selected_strategy' = [selected_strategy EXCEPT ![a] =
                    IF checkpoint[a].selected_strategy # "none"
                    THEN checkpoint[a].selected_strategy ELSE @]
    /\ main' = [main EXCEPT ![a] = "loaded"]
    /\ UNCHANGED << busVars, checkpoint, ckptWrites, locked_sectors, global_locks,
                    calls, lastCall, thr, budget >>

\* BaseAgent.start, second statement: transition_state(RUNNING, ...)
StartTransition(a) ==
    /\ main[a] = "loaded"
    /\ TransitionState(a, "RUNNING", "Agent startup initiated")
    /\ main' = [main EXCEPT ![a] = "loop"]
    /\ UNCHANGED << subscribers, behaviour, log, uncaught, checkpoint, ckptWrites,
                    global_locks, mining_queue, selected_strategy, thr, budget >>

\* BaseAgent._run_loop: one evaluation of the while condition and the branch
\* (the PAUSED/IDLE branches only sleep and poll again)
LoopPoll(a) ==
    /\ main[a] = "loop"
    /\ state[a] \in {"STOPPED", "RUNNING"}
    /\ main' = [main EXCEPT ![a] = IF state[a] = "STOPPED" THEN "exited" ELSE "cycle"]
    /\ UNCHANGED << busVars, state, checkpoint, ckptWrites, locked_sectors,
                    global_locks, mining_queue, selected_strategy, calls,
                    lastCall, thr, budget >>

\* BaseAgent._run_loop: perceive, decide and act return normally
CycleDone(a) ==
    /\ main[a] = "cycle"
    /\ main' = [main EXCEPT ![a] = "loop"]
    /\ UNCHANGED << busVars, state, checkpoint, ckptWrites, locked_sectors,
                    global_locks, mining_queue, selected_strategy, calls,
                    lastCall, thr, budget >>

\* BaseAgent._run_loop: perceive, decide or act raises; the except clause
\* calls transition_state(ERROR, ...) and handle_error
CycleRaise(a) ==
    /\ main[a] = "cycle"
    /\ TransitionState(a, "ERROR", "Crash in run loop")
    /\ main' = [main EXCEPT ![a] = "crashed"]
    /\ UNCHANGED << subscribers, behaviour, log, uncaught, checkpoint, ckptWrites,
                    global_locks, mining_queue, selected_strategy, thr, budget >>

\* _run_loop's except clause, last statement: MinerBot.handle_error releases
\* the sectors still in locked_sectors, one by one over a copy of the set;
\* _run_loop then returns
HandleError(a) ==
    /\ main[a] = "crashed"
    /\ LET rel == lock_event_msgs(a, Len(history) + 1, "lock.release",
                                  SetToSeq(locked_sectors[a]))
       IN  /\ history' = publish_all_history(history, rel)
           /\ tasks' = publish_all_tasks(tasks, subscribers, rel)
    /\ locked_sectors' = [locked_sectors EXCEPT ![a] = {}]
    /\ main' = [main EXCEPT ![a] = "handled"]
    /\ UNCHANGED << subscribers, behaviour, log, uncaught, state, checkpoint,
                    ckptWrites, global_locks, mining_queue, selected_strategy,
                    calls, lastCall, thr, budget >>

\* test_thread_safety task(): the next call of a stress thread
StressRunning(t, a) ==
    /\ thr[t].op = "stress" /\ thr[t].n < 2 * StressIters /\ thr[t].n % 2 = 0
    /\ TransitionState(a, "RUNNING", "Stress test")
    /\ thr' = [thr EXCEPT ![t].n = @ + 1]
    /\ UNCHANGED << subscribers, behaviour, log, uncaught, checkpoint, ckptWrites,
                    global_locks, mining_queue, selected_strategy, main, budget >>

StressIdle(t, a) ==
    /\ thr[t].op = "stress" /\ thr[t].n < 2 * StressIters /\ thr[t].n % 2 = 1
    /\ TransitionState(a, "IDLE", "Stress test")
    /\ thr' = [thr EXCEPT ![t].n = @ + 1]
    /\ UNCHANGED << subscribers, behaviour, log, uncaught, checkpoint, ckptWrites,
                    global_locks, mining_queue, selected_strategy, main, budget >>

----------------------------------------------------------------------------
(* Resource coordination: MinerBot holdings, requirements and crafting *)

\* A requirement dict, in insertion order: << [item, count], ... >>
Req(item, count) == << [item |-> item, count |-> count] >>

\* Mutant of _requirements_met: STONE and COBBLESTONE are counted apart
_requirements_met_no_pool(inv, reqs) ==
    LET missing == {i \in 1..Len(reqs) : inv[reqs[i].item] < Q(reqs[i].count)}
    IN  missing = {}

\* MinerBot._requirements_met(reqs) on holdings inv
_requirements_met(inv, reqs) ==
    LET stone_pool == inv["STONE"] + inv["COBBLESTONE"]
        current(item) == IF item \in StonePool THEN stone_pool ELSE inv[item]
        missing == {i \in 1..Len(reqs) :
                        current(reqs[i].item) < Q(reqs[i].count)}
    IN  missing = {}

\* Mutant of try_craft_item: when the ingredients do not cover the shortfall,
\* what they do cover is crafted
try_craft_item_partial(inv, item, count) ==
    IF inv[item] >= Q(count) THEN inv
    ELSE IF item \notin DOMAIN CRAFTING_RECIPES THEN inv
    ELSE LET recipe == CRAFTING_RECIPES[item]
             g == CHOOSE x \in DOMAIN recipe : TRUE
             affordable == (inv[g] * Quarter) \div recipe[g]
             shortfall == Q(count) - inv[item]
             made == IF affordable < shortfall THEN affordable ELSE shortfall
         IN  [inv EXCEPT ![g] = @ - (made * recipe[g]) \div Quarter,
                         ![item] = @ + made]

\* MinerBot._try_craft, the body of its loop for one required item
try_craft_item(inv, item, count) ==
    IF inv[item] >= Q(count) THEN inv
    ELSE IF item \notin DOMAIN CRAFTING_RECIPES THEN inv
    ELSE LET needed == Q(count) - inv[item]
             recipe == CRAFTING_RECIPES[item]
             ingredient_needed(g) == (needed * recipe[g]) \div Quarter
             can_craft == \A g \in DOMAIN recipe : inv[g] >= ingredient_needed(g)
         IN  IF can_craft
             THEN [m \in DOMAIN inv |->
                     IF m \in DOMAIN recipe THEN inv[m] - ingredient_needed(m)
                     ELSE IF m = item THEN inv[m] + needed
                     ELSE inv[m]]
             ELSE inv

\* MinerBot._try_craft(reqs): the holdings after it
RECURSIVE _try_craft(_, _)
_try_craft(inv, reqs) ==
    IF reqs = << >> THEN inv
    ELSE _try_craft(try_craft_item(inv, Head(reqs).item, Head(reqs).count),
                    Tail(reqs))

\* No sector: the empty tuple
NoSector == << >>

\* A mine() call that has not started.  Its locals are req, sector, mining_loc
\* and attempts; the other fields record what the calls did: n counts the
\* calls, first is the first candidate sector, examined the number of
\* candidates tested, acquired the sector added to locked_sectors, acquireAt
\* the position of its lock.acquire in the history, injected whether the
\* fallback injected resources, outcome how the latest call ended, observed
\* the global_locks the call tested its sector against, held the holdings
\* before the latest crafting or deduction.
NoCall == [pc |-> "none", req |-> << >>, sector |-> NoSector, attempts |-> 0,
           met |-> FALSE, mining_loc |-> << 0, 0 >>, n |-> 0,
           first |-> NoSector, examined |-> 0, acquired |-> NoSector,
           acquireAt |-> 0, injected |-> FALSE, outcome |-> "none",
           observed |-> {}, held |-> EmptyInventory]

\* No Minecraft connection
NoWorld == [positions |-> {}, yields |-> {}]

\* A set iterator: the size of the set when it was created, the set then, and
\* the elements it has yielded.  The other fields record the forced
\* transition it belongs to: the sectors held and the length of the history
\* when the state was forced, and, once the call is over, how it ended, the
\* sectors then held and the length of the history then.
NoIterator == [size |-> 0, snapshot |-> {}, visited |-> {}, cur |-> NoSector,
               agent |-> "none", held |-> {}, since |-> 0, ended |-> "no",
               left |-> {}, upto |-> 0]

\* A caller evaluates _requirements_met on the head of the queue
EvalRequirementsMet(a) ==
    /\ mcall[a].pc \in {"none", "crafted"}
    /\ mining_queue[a] # << >>
    /\ mcall' = [mcall EXCEPT ![a].pc = IF @ = "none" THEN "checked" ELSE "rechecked",
                              ![a].req = Head(mining_queue[a]),
                              ![a].met = _requirements_met(inventory[a],
                                                           Head(mining_queue[a]))]
    /\ UNCHANGED << busVars, state, checkpoint, ckptWrites, locked_sectors,
                    global_locks, mining_queue, selected_strategy, calls,
                    lastCall, main, thr, budget, inventory, force_delivery,
                    world, pending_builds, message_data,
                    forcing >>

\* A caller runs _try_craft on the head of the queue
EvalTryCraft(a) ==
    /\ mcall[a].pc \in {"none", "checked"}
    /\ mining_queue[a] # << >>
    /\ inventory' = [inventory EXCEPT ![a] = _try_craft(@, Head(mining_queue[a]))]
    /\ mcall' = [mcall EXCEPT ![a].pc = "crafted",
                              ![a].req = Head(mining_queue[a]),
                              ![a].held = inventory[a]]
    /\ UNCHANGED << busVars, state, checkpoint, ckptWrites, locked_sectors,
                    global_locks, mining_queue, selected_strategy, calls,
                    lastCall, main, thr, budget, force_delivery,
                    world, pending_builds, message_data, forcing >>

----------------------------------------------------------------------------
(* MinerBot.mine and the sector locks *)

max_attempts == 10
SectorSize == 16
QuarryOffset == 10
ShiftOffset == 26
SiteStep == 8
WoodSiteStep == 20

\* sector = (mining_loc[0] // 16, mining_loc[2] // 16)
sector_of(loc) == << loc[1] \div SectorSize, loc[2] \div SectorSize >>

\* What a step of mine() never touches
mineFrame == << subscribers, behaviour, log, uncaught, state, checkpoint,
                ckptWrites, global_locks, selected_strategy, calls, lastCall,
                thr, budget, world, pending_builds, message_data, forcing >>

\* bus.publish of each message of a sequence
PublishAll(msgs) ==
    /\ history' = publish_all_history(history, msgs)
    /\ tasks' = publish_all_tasks(tasks, subscribers, msgs)

\* MinerBot.decide (auto_mine is off)
decide(a) ==
    IF mining_queue[a] # << >>
    THEN IF selected_strategy[a] # "none" THEN "mine" ELSE "wait_for_strategy"
    ELSE "none"

\* MinerBot.act when the decision is not to mine: the cycle ends
ActWait(a) ==
    /\ main[a] = "cycle"
    /\ decide(a) # "mine"
    /\ main' = [main EXCEPT ![a] = "loop"]
    /\ UNCHANGED << mineFrame, history, tasks, locked_sectors, mining_queue,
                    inventory, force_delivery, mcall >>

\* Mutant of lock_test: the global registry is not consulted
lock_test_local_only(owned, observed, sector) ==
    IF sector \in owned THEN "abort_local" ELSE "acquire"

\* mine(), the tests of the candidate sector after the shift: the second local
\* test, then the global one
lock_test(owned, observed, sector) ==
    IF sector \in owned THEN "abort_local"
    ELSE IF sector \in observed THEN "abort_global"
    ELSE "acquire"

\* mine(), up to the lock tests: the request, the quarry site and its sector,
\* the shift on a local conflict and the two aborts
MineEnter(a) ==
    /\ main[a] = "cycle"
    /\ decide(a) = "mine"
    /\ mcall[a].n < MaxMines
    /\ \E pos \in world.positions :
         LET site == << pos[1] + QuarryOffset, pos[2] + QuarryOffset >>
             alt == << pos[1] + ShiftOffset, pos[2] + QuarryOffset >>
             conflict == sector_of(site) \in locked_sectors[a]
             mining_loc == IF conflict THEN alt ELSE site
             sector == sector_of(mining_loc)
             call == [NoCall EXCEPT !.req = Head(mining_queue[a]),
                                    !.sector = sector,
                                    !.mining_loc = mining_loc,
                                    !.n = mcall[a].n + 1,
                                    !.first = sector_of(site),
                                    !.examined = IF conflict THEN 2 ELSE 1,
                                    !.observed = global_locks[a]]
             verdict == lock_test(locked_sectors[a], global_locks[a], sector)
         IN  IF verdict = "acquire"
             THEN /\ mcall' = [mcall EXCEPT ![a] = [call EXCEPT !.pc = "add"]]
                  /\ main' = [main EXCEPT ![a] = "mine"]
             ELSE /\ mcall' = [mcall EXCEPT ![a] =
                                 [call EXCEPT !.pc = "returned",
                                              !.outcome = verdict]]
                  /\ main' = [main EXCEPT ![a] = "loop"]
    /\ UNCHANGED << mineFrame, history, tasks, locked_sectors, mining_queue,
                    inventory, force_delivery >>

\* self.locked_sectors.add(sector)
MineAdd(a) ==
    /\ main[a] = "mine" /\ mcall[a].pc = "add"
    /\ locked_sectors' = [locked_sectors EXCEPT ![a] = @ \cup {mcall[a].sector}]
    /\ mcall' = [mcall EXCEPT ![a].pc = "announce",
                              ![a].acquired = mcall[a].sector]
    /\ UNCHANGED << mineFrame, history, tasks, mining_queue, main, inventory,
                    force_delivery >>

\* self._publish_lock_event("lock.acquire", sector)
MineAnnounce(a) ==
    /\ main[a] = "mine" /\ mcall[a].pc = "announce"
    /\ PublishAll(lock_event_msgs(a, Len(history) + 1, "lock.acquire",
                                  << mcall[a].sector >>))
    /\ mcall' = [mcall EXCEPT ![a].pc = "loop", ![a].acquireAt = Len(history) + 1]
    /\ UNCHANGED << mineFrame, locked_sectors, mining_queue, main, inventory,
                    force_delivery >>

\* The while test, the force_delivery test, _try_craft and the second test
MineLoopHead(a) ==
    /\ main[a] = "mine" /\ mcall[a].pc = "loop"
    /\ LET req == mcall[a].req
           crafted == _try_craft(inventory[a], req)
       IN  IF _requirements_met(inventory[a], req)
                \/ mcall[a].attempts >= max_attempts
                \/ force_delivery[a]
           THEN /\ mcall' = [mcall EXCEPT ![a].pc = "fallback"]
                /\ UNCHANGED inventory
           ELSE /\ inventory' = [inventory EXCEPT ![a] = crafted]
                /\ mcall' = [mcall EXCEPT ![a].pc =
                                IF _requirements_met(crafted, req)
                                THEN "fallback" ELSE "poll"]
    /\ UNCHANGED << mineFrame, history, tasks, locked_sectors, mining_queue,
                    main, force_delivery >>

\* The PAUSED wait, the STOPPED test, attempts += 1 and the strategy test
MinePoll(a) ==
    /\ main[a] = "mine" /\ mcall[a].pc = "poll"
    /\ state[a] # "PAUSED"
    /\ mcall' = IF state[a] = "STOPPED"
                THEN [mcall EXCEPT ![a].pc = "fallback"]
                ELSE [mcall EXCEPT ![a].attempts = @ + 1,
                                   ![a].pc = IF selected_strategy[a] = "none"
                                             THEN "fallback" ELSE "execute"]
    /\ UNCHANGED << mineFrame, history, tasks, locked_sectors, mining_queue,
                    main, inventory, force_delivery >>

\* What strategy.execute can do: return a loot dict or raise
Yield(loot) == [kind |-> "loot", loot |-> loot]
Raises == [kind |-> "raise", loot |-> EmptyInventory]
NoLoot == EmptyInventory

\* Merge loot into inventory
merge_loot(inv, loot) == [m \in DOMAIN inv |-> inv[m] + loot[m]]

\* req.get(item), 0 when absent
req_get(req, item) ==
    IF \E i \in 1..Len(req) : req[i].item = item
    THEN req[CHOOSE i \in 1..Len(req) : req[i].item = item].count
    ELSE 0

\* Move the mining site for the next attempt
next_site(loc, req, loot) ==
    IF loot # NoLoot /\ req_get(req, "WOOD") # 0 /\ loot["WOOD"] = 0
    THEN << loc[1] + WoodSiteStep, loc[2] >>
    ELSE << loc[1] + SiteStep, loc[2] >>

\* strategy.execute(self, start_loc=mining_loc), the merge of its loot, the move
\* of the site and the second _try_craft; or the exception it raises, which
\* mine() catches and logs
MineExecute(a) ==
    /\ main[a] = "mine" /\ mcall[a].pc = "execute"
    /\ \E o \in world.yields :
         IF o.kind = "raise"
         THEN /\ mcall' = [mcall EXCEPT ![a].pc = "finally"]
              /\ UNCHANGED inventory
         ELSE /\ inventory' = [inventory EXCEPT ![a] =
                                 _try_craft(merge_loot(@, o.loot), mcall[a].req)]
              /\ mcall' = [mcall EXCEPT ![a].pc = "loop",
                                        ![a].mining_loc =
                                            next_site(@, mcall[a].req, o.loot)]
    /\ UNCHANGED << mineFrame, history, tasks, locked_sectors, mining_queue,
                    main, force_delivery >>

\* Mutant of fallback_inject: nothing is injected
fallback_inject_nothing(inv, available, reqs) == inv

\* The simulation fallback: the holdings after the missing quantity of each
\* required item, measured on the copy `available`, was injected
RECURSIVE fallback_inject(_, _, _)
fallback_inject(inv, available, reqs) ==
    IF reqs = << >> THEN inv
    ELSE LET item == Head(reqs).item
             count == Q(Head(reqs).count)
             stone_pool == available["STONE"] + available["COBBLESTONE"]
             current == IF item \in StonePool THEN stone_pool ELSE available[item]
             target_item == IF item = "STONE" THEN "COBBLESTONE" ELSE item
             injected == IF current < count
                         THEN [inv EXCEPT ![target_item] = @ + (count - current)]
                         ELSE inv
         IN  fallback_inject(injected, available, Tail(reqs))

\* if not self._requirements_met(req) and not self.force_delivery: inject
MineFallback(a) ==
    /\ main[a] = "mine" /\ mcall[a].pc = "fallback"
    /\ IF ~_requirements_met(inventory[a], mcall[a].req) /\ ~force_delivery[a]
       THEN /\ inventory' = [inventory EXCEPT ![a] =
                               fallback_inject(@, @, mcall[a].req)]
            /\ mcall' = [mcall EXCEPT ![a].pc = "deliver", ![a].injected = TRUE]
       ELSE /\ mcall' = [mcall EXCEPT ![a].pc = "deliver"]
            /\ UNCHANGED inventory
    /\ UNCHANGED << mineFrame, history, tasks, locked_sectors, mining_queue,
                    main, force_delivery >>

Min(x, y) == IF x < y THEN x ELSE y

\* Mutant of deduct: the whole quantity is taken from the named material
RECURSIVE deduct_named_only(_, _)
deduct_named_only(inv, reqs) ==
    IF reqs = << >> THEN inv
    ELSE deduct_named_only([inv EXCEPT ![Head(reqs).item] = @ - Q(Head(reqs).count)],
                           Tail(reqs))

\* Deduct the delivered quantities from the holdings
RECURSIVE deduct(_, _)
deduct(inv, reqs) ==
    IF reqs = << >> THEN inv
    ELSE LET item == Head(reqs).item
             count == Q(Head(reqs).count)
             to_take == Min(inv[item], count)
             deducted == IF to_take > 0 THEN to_take ELSE 0
             remaining == count - deducted
             sibling == IF item = "COBBLESTONE" THEN "STONE" ELSE "COBBLESTONE"
             taken == [inv EXCEPT ![item] = @ - deducted]
             after == IF item \in StonePool
                      THEN IF remaining > 0
                           THEN [taken EXCEPT ![sibling] = @ - remaining]
                           ELSE taken
                      ELSE [inv EXCEPT ![item] = @ - count]
         IN  deduct(after, Tail(reqs))

\* A caller runs the deduction of a delivery for the head of the queue: the
\* requirement is met, or the delivery was forced by on_fulfill
EvalDeduct(a) ==
    /\ mcall[a].pc = "none"
    /\ mining_queue[a] # << >>
    /\ inventory' = [inventory EXCEPT ![a] = deduct(@, Head(mining_queue[a]))]
    /\ mcall' = [mcall EXCEPT ![a].pc = "deducted",
                              ![a].req = Head(mining_queue[a]),
                              ![a].held = inventory[a]]
    /\ UNCHANGED << busVars, state, checkpoint, ckptWrites, locked_sectors,
                    global_locks, mining_queue, selected_strategy, calls,
                    lastCall, main, thr, budget, force_delivery, world,
                    pending_builds, message_data, forcing >>

\* The inventory.v1 message of a delivery
inventory_msg(a, n, req) ==
    Message(n, "inventory.v1", a, "BuilderBot", [inventory |-> req])

\* A delivery that publishes inventory.v1 and leaves the head in the queue
MineDeliver_keeps_head(a) ==
    /\ main[a] = "mine" /\ mcall[a].pc = "deliver"
    /\ IF _requirements_met(inventory[a], mcall[a].req) \/ force_delivery[a]
       THEN /\ force_delivery' = [force_delivery EXCEPT ![a] = FALSE]
            /\ inventory' = [inventory EXCEPT ![a] = deduct(@, mcall[a].req)]
            /\ PublishAll(<< inventory_msg(a, Len(history) + 1, mcall[a].req) >>)
            /\ UNCHANGED mining_queue
            /\ mcall' = [mcall EXCEPT ![a].pc = "finally",
                                      ![a].held = inventory[a]]
       ELSE /\ UNCHANGED << force_delivery, inventory, history, tasks,
                            mining_queue >>
            /\ mcall' = [mcall EXCEPT ![a].pc = "finally"]
    /\ UNCHANGED << mineFrame, locked_sectors, main >>

\* if self._requirements_met(req) or self.force_delivery: deliver
MineDeliver(a) ==
    /\ main[a] = "mine" /\ mcall[a].pc = "deliver"
    /\ IF _requirements_met(inventory[a], mcall[a].req) \/ force_delivery[a]
       THEN /\ force_delivery' = [force_delivery EXCEPT ![a] = FALSE]
            /\ inventory' = [inventory EXCEPT ![a] = deduct(@, mcall[a].req)]
            /\ PublishAll(<< inventory_msg(a, Len(history) + 1, mcall[a].req) >>)
            /\ mining_queue' = [mining_queue EXCEPT ![a] = Tail(@)]
            /\ mcall' = [mcall EXCEPT ![a].pc = "finally",
                                      ![a].held = inventory[a]]
       ELSE /\ UNCHANGED << force_delivery, inventory, history, tasks,
                            mining_queue >>
            /\ mcall' = [mcall EXCEPT ![a].pc = "finally"]
    /\ UNCHANGED << mineFrame, locked_sectors, main >>

\* finally: if sector in self.locked_sectors
MineFinallyCheck(a) ==
    /\ main[a] = "mine" /\ mcall[a].pc = "finally"
    /\ IF mcall[a].sector \in locked_sectors[a]
       THEN /\ mcall' = [mcall EXCEPT ![a].pc = "remove"]
            /\ UNCHANGED main
       ELSE /\ mcall' = [mcall EXCEPT ![a].pc = "returned",
                                      ![a].outcome = "returned"]
            /\ main' = [main EXCEPT ![a] = "loop"]
    /\ UNCHANGED << mineFrame, history, tasks, locked_sectors, mining_queue,
                    inventory, force_delivery >>

\* self.locked_sectors.remove(sector): KeyError when the sector is gone, which
\* leaves mine() and act() and reaches _run_loop's except clause
MineFinallyRemove(a) ==
    /\ main[a] = "mine" /\ mcall[a].pc = "remove"
    /\ IF mcall[a].sector \in locked_sectors[a]
       THEN /\ locked_sectors' = [locked_sectors EXCEPT ![a] = @ \ {mcall[a].sector}]
            /\ mcall' = [mcall EXCEPT ![a].pc = "release"]
            /\ UNCHANGED main
       ELSE /\ mcall' = [mcall EXCEPT ![a].pc = "returned",
                                      ![a].outcome = "raised"]
            /\ main' = [main EXCEPT ![a] = "raised"]
            /\ UNCHANGED locked_sectors
    /\ UNCHANGED << mineFrame, history, tasks, mining_queue, inventory,
                    force_delivery >>

\* self._publish_lock_event("lock.release", sector), and mine() returns
MineFinallyRelease(a) ==
    /\ main[a] = "mine" /\ mcall[a].pc = "release"
    /\ PublishAll(lock_event_msgs(a, Len(history) + 1, "lock.release",
                                  << mcall[a].sector >>))
    /\ mcall' = [mcall EXCEPT ![a].pc = "returned", ![a].outcome = "returned"]
    /\ main' = [main EXCEPT ![a] = "loop"]
    /\ UNCHANGED << mineFrame, locked_sectors, mining_queue, inventory,
                    force_delivery >>

\* _run_loop's except clause after act() raised: transition_state(ERROR, ...)
\* and handle_error
LoopCrash(a) ==
    /\ main[a] = "raised"
    /\ TransitionState(a, "ERROR", "Crash in run loop")
    /\ main' = [main EXCEPT ![a] = "crashed"]
    /\ UNCHANGED << subscribers, behaviour, log, uncaught, checkpoint, ckptWrites,
                    global_locks, mining_queue, selected_strategy, thr, budget,
                    mineVars >>

----------------------------------------------------------------------------
(* MinerBot.transition_state on a control thread, statement by statement *)

\* super().transition_state(new_state, reason): the base method, under
\* _state_lock
BaseTransitionState(a, new_state, reason) ==
    LET previous_state == state[a]
    IN  /\ state' = [state EXCEPT ![a] = transition_new_state(previous_state, new_state)]
        /\ PublishAll(state_change_msgs(a, Len(history) + 1, previous_state,
                                        new_state, reason))
        /\ calls' = [calls EXCEPT ![a] = @ + 1]
        /\ lastCall' = [lastCall EXCEPT ![a] =
                          [new_state |-> new_state, reason |-> reason,
                           before |-> previous_state]]

\* What a forcing step never touches
forceFrame == << subscribers, behaviour, log, checkpoint, ckptWrites,
                 global_locks, mining_queue, selected_strategy, main, inventory,
                 force_delivery, mcall, world, pending_builds, message_data >>

\* The state a control operation forces
forced_state(op) == IF op = "stop" THEN "STOPPED" ELSE "ERROR"

\* if new_state in [AgentState.STOPPED, AgentState.ERROR]
must_release(new_state) == new_state \in {"STOPPED", "ERROR"}

\* The record of a forced transition that is over
Ended(t, how, locked) ==
    [forcing[t] EXCEPT !.ended = how, !.left = locked[thr[t].agent],
                       !.upto = Len(history)]

\* The position of a thread whose transition_state call has returned
AfterTransition(t) ==
    IF thr[t].op = "stop" THEN [thr[t] EXCEPT !.pc = "save"] ELSE Idle

\* stop() or a direct transition_state(ERROR, ...) call on a miner: the base
\* method
ForceBase(t, a, op) ==
    /\ a \in Miners
    /\ thr[t].op = "none" /\ budget > 0
    /\ BaseTransitionState(a, forced_state(op),
                           IF op = "stop" THEN "Agent received stop command"
                           ELSE "Forced error")
    /\ thr' = [thr EXCEPT ![t] = [op |-> op, pc |-> "override", agent |-> a,
                                  same |-> (state[a] = forced_state(op)),
                                  n |-> 0, data |-> NoCheckpoint]]
    /\ budget' = budget - 1
    /\ forcing' = [forcing EXCEPT ![t] =
                     [NoIterator EXCEPT !.agent = a,
                                        !.held = locked_sectors[a],
                                        !.since = Len(history)]]
    /\ UNCHANGED << forceFrame, uncaught, locked_sectors >>

\* The override after super(): the state test and `if self.locked_sectors:`
OverrideCheck(t) ==
    /\ thr[t].pc = "override"
    /\ IF must_release(forced_state(thr[t].op))
            /\ locked_sectors[thr[t].agent] # {}
       THEN /\ thr' = [thr EXCEPT ![t].pc = "for"]
            /\ UNCHANGED forcing
       ELSE /\ thr' = [thr EXCEPT ![t] = AfterTransition(t)]
            /\ forcing' = [forcing EXCEPT ![t] = Ended(t, "returned", locked_sectors)]
    /\ UNCHANGED << forceFrame, uncaught, history, tasks, state, calls, lastCall,
                    locked_sectors, budget >>

\* `for sector in self.locked_sectors:` creates the set iterator
OverrideFor(t) ==
    /\ thr[t].pc = "for"
    /\ forcing' = [forcing EXCEPT
                      ![t].size = Cardinality(locked_sectors[thr[t].agent]),
                      ![t].snapshot = locked_sectors[thr[t].agent]]
    /\ thr' = [thr EXCEPT ![t].pc = "next"]
    /\ UNCHANGED << forceFrame, uncaught, history, tasks, state, calls, lastCall,
                    locked_sectors, budget >>

\* The iterator's next(): RuntimeError when the set changed size during the
\* iteration; else an element not yet yielded (one added meanwhile may be
\* missed), or the end of the loop
OverrideNext(t) ==
    /\ thr[t].pc = "next"
    /\ LET held == locked_sectors[thr[t].agent]
           it == forcing[t]
           must == (held \cap it.snapshot) \ it.visited
           may == (held \ it.snapshot) \ it.visited
       IN  IF Cardinality(held) # it.size
           THEN /\ thr' = [thr EXCEPT ![t] = Idle]
                /\ uncaught' = uncaught \cup
                      {[thread |-> t, error |-> "RuntimeError"]}
                /\ forcing' = [forcing EXCEPT ![t] = Ended(t, "raised", locked_sectors)]
           ELSE /\ \/ \E sector \in must \cup may :
                        /\ forcing' = [forcing EXCEPT
                                          ![t].cur = sector,
                                          ![t].visited = @ \cup {sector}]
                        /\ thr' = [thr EXCEPT ![t].pc = "publish"]
                   \/ /\ must = {}
                      /\ thr' = [thr EXCEPT ![t].pc = "clear"]
                      /\ UNCHANGED forcing
                /\ UNCHANGED uncaught
    /\ UNCHANGED << forceFrame, history, tasks, state, calls, lastCall,
                    locked_sectors, budget >>

\* self._publish_lock_event("lock.release", sector) inside the loop
OverridePublish(t) ==
    /\ thr[t].pc = "publish"
    /\ PublishAll(lock_event_msgs(thr[t].agent, Len(history) + 1, "lock.release",
                                  << forcing[t].cur >>))
    /\ thr' = [thr EXCEPT ![t].pc = "next"]
    /\ UNCHANGED << forceFrame, uncaught, state, calls, lastCall, locked_sectors,
                    budget, forcing >>

\* self.locked_sectors.clear(), and transition_state returns
OverrideClear(t) ==
    /\ thr[t].pc = "clear"
    /\ locked_sectors' = [locked_sectors EXCEPT ![thr[t].agent] = {}]
    /\ thr' = [thr EXCEPT ![t] = AfterTransition(t)]
    /\ forcing' = [forcing EXCEPT ![t] = Ended(t, "returned", locked_sectors')]
    /\ UNCHANGED << forceFrame, uncaught, history, tasks, state, calls, lastCall,
                    budget >>

\* MinerBot.on_fulfill
on_fulfill(t, a) ==
    /\ a \in Miners
    /\ thr[t].op = "none" /\ budget > 0
    /\ force_delivery' = [force_delivery EXCEPT ![a] = TRUE]
    /\ budget' = budget - 1
    /\ UNCHANGED << busVars, state, checkpoint, ckptWrites, locked_sectors,
                    global_locks, mining_queue, selected_strategy, calls,
                    lastCall, main, thr, inventory, mcall,
                    world, pending_builds, message_data, forcing >>

\* A bus callback bound to an agent's handler
Handler(a, name) == [agent |-> a, handler |-> name]

\* Mutant of lock_activity: the receiver's own broadcasts are not ignored
lock_activity_no_self_test(a, observed, message) ==
    LET sector == message.payload.sector
    IN  IF sector = << >> THEN observed
        ELSE IF message.type = "lock.acquire" THEN observed \cup {sector}
        ELSE IF message.type = "lock.release" THEN observed \ {sector}
        ELSE observed

\* MinerBot.on_lock_activity: global_locks after the message was handled
lock_activity(a, observed, message) ==
    LET sector == message.payload.sector
    IN  IF message.source = a THEN observed
        ELSE IF sector = << >> THEN observed
        ELSE IF message.type = "lock.acquire" THEN observed \cup {sector}
        ELSE IF message.type = "lock.release" THEN observed \ {sector}
        ELSE observed

\* A pool worker runs _dispatch for a task of on_lock_activity: the message is
\* validated, the handler is invoked with it and returns
InvokeLockActivity(i) ==
    /\ tasks[i].pc = "queued"
    /\ tasks[i].cb.handler = "on_lock_activity"
    /\ LET v == dispatch_validate(tasks[i])
       IN  /\ v.task.pc = "running"
           /\ global_locks' = [global_locks EXCEPT ![tasks[i].cb.agent] =
                                  lock_activity(tasks[i].cb.agent, @, tasks[i].msg)]
           /\ LET r == dispatch_attempt(v.task, "return")
              IN  /\ tasks' = [tasks EXCEPT ![i] = r.task]
                  /\ log' = log \cup v.logs \cup r.logs
    /\ UNCHANGED << subscribers, behaviour, history, uncaught, state, checkpoint,
                    ckptWrites, locked_sectors, mining_queue, selected_strategy,
                    calls, lastCall, main, thr, budget, mineVars >>

\* MinerBot.on_requirements_received: mining_queue after the message was
\* handled
requirements_received(queue, message) ==
    LET reqs == message.payload.requirements
    IN  IF reqs # << >> THEN Append(queue, reqs) ELSE queue

\* A pool worker runs _dispatch for a task of on_requirements_received: the
\* message is validated, the handler is invoked with it and returns
InvokeRequirements(i) ==
    /\ tasks[i].pc = "queued"
    /\ tasks[i].cb.handler = "on_requirements_received"
    /\ LET v == dispatch_validate(tasks[i])
       IN  /\ v.task.pc = "running"
           /\ mining_queue' = [mining_queue EXCEPT ![tasks[i].cb.agent] =
                                  requirements_received(@, tasks[i].msg)]
           /\ LET r == dispatch_attempt(v.task, "return")
              IN  /\ tasks' = [tasks EXCEPT ![i] = r.task]
                  /\ log' = log \cup v.logs \cup r.logs
    /\ UNCHANGED << subscribers, behaviour, history, uncaught, state, checkpoint,
                    ckptWrites, locked_sectors, global_locks, selected_strategy,
                    calls, lastCall, main, thr, budget, mineVars >>

(* BuilderBot: build jobs and the materials collected for them *)

retry_limit == 10

\* Sites the explorer can have reported: current_scan_results[0]
BuildSites == {"site_a", "site_b"}

\* The entry on_build_command appends to pending_builds.  collected is absent
\* until the first delivery; every read of it is collected.get(item, 0).
NewJob(target, bom) ==
    [location |-> target, bom |-> bom, status |-> "waiting_for_materials",
     retry_count |-> 0, collected |-> EmptyInventory]

\* for item, count in inventory.items(): collected[item] += count
RECURSIVE accumulate(_, _)
accumulate(collected, delivered) ==
    IF delivered = << >> THEN collected
    ELSE accumulate([collected EXCEPT ![Head(delivered).item] =
                        @ + Q(Head(delivered).count)],
                    Tail(delivered))

\* BuilderBot.on_inventory_received, the check of collected against bom: an
\* item of the bill is short when the loop sets complete = False on it
bom_complete(collected, bom) ==
    LET short(item, needed) ==
            IF item \in StonePool
            THEN collected["STONE"] + collected["COBBLESTONE"] < needed
            ELSE IF item = "WOOD_PLANKS"
            THEN collected["WOOD_PLANKS"] + collected["WOOD"] * 4 < needed
            ELSE collected[item] < needed
    IN  \A i \in 1..Len(bom) : ~short(bom[i].item, Q(bom[i].count))

\* BuilderBot.on_inventory_received(message): pending_builds after it
on_inventory_received(builds, delivered) ==
    IF builds = << >> THEN builds
    ELSE LET build_job == [Head(builds) EXCEPT
                              !.collected = accumulate(@, delivered)]
             retried == [build_job EXCEPT !.retry_count = @ + 1]
             after == IF bom_complete(build_job.collected, build_job.bom)
                      THEN [build_job EXCEPT !.status = "READY_TO_BUILD"]
                      ELSE IF retried.retry_count >= retry_limit
                      THEN [retried EXCEPT !.status = "READY_TO_BUILD"]
                      ELSE retried
         IN  << after >> \o Tail(builds)

\* The bus worker's _dispatch of an inventory.v1 message to the builder
InvokeInventory(i) ==
    /\ tasks[i].pc = "queued"
    /\ tasks[i].cb.handler = "on_inventory_received"
    /\ LET v == dispatch_validate(tasks[i])
       IN  /\ v.task.pc = "running"
           /\ pending_builds' = on_inventory_received(pending_builds,
                                      tasks[i].msg.payload.inventory)
           /\ LET r == dispatch_attempt(v.task, "return")
              IN  /\ tasks' = [tasks EXCEPT ![i] = r.task]
                  /\ log' = log \cup v.logs \cup r.logs
    /\ UNCHANGED << subscribers, behaviour, history, uncaught, state, checkpoint,
                    ckptWrites, locked_sectors, global_locks, mining_queue,
                    selected_strategy, calls, lastCall, main, thr, budget,
                    inventory, force_delivery, mcall, world, message_data,
                    forcing >>

\* BuilderBot.act when decide() returns "BUILD": build_structure builds the
\* first job and pops it
build_structure ==
    /\ pending_builds # << >>
    /\ Head(pending_builds).status = "READY_TO_BUILD"
    /\ pending_builds' = Tail(pending_builds)
    /\ UNCHANGED << busVars, state, checkpoint, ckptWrites, locked_sectors,
                    global_locks, mining_queue, selected_strategy, calls,
                    lastCall, main, thr, budget, inventory, force_delivery,
                    mcall, world, message_data, forcing >>

\* The materials.requirements.v1 messages published so far
Requests ==
    {i \in 1..Len(history) : history[i].type = "materials.requirements.v1"}

\* on_build_command, its effect on pending_builds: the job at the target is
\* updated in place, or a new job is appended
build_command_jobs(builds, target, bom) ==
    LET existing == {i \in 1..Len(builds) : builds[i].location = target}
    IN  IF existing # {}
        THEN LET existing_idx == CHOOSE i \in existing :
                                     \A j \in existing : i <= j
             IN  [builds EXCEPT ![existing_idx].bom = bom,
                                ![existing_idx].status = "waiting_for_materials",
                                ![existing_idx].retry_count = 0]
        ELSE Append(builds, NewJob(target, bom))

\* BuilderBot.on_build_command with a plan selected and a site scanned: the
\* job is recorded and the bill of materials bom of the plan is published to
\* the miner
on_build_command(target, bom) ==
    /\ Cardinality(Requests) < MaxBuilds
    /\ pending_builds' = build_command_jobs(pending_builds, target, bom)
    /\ PublishAll(<< Message(Len(history) + 1, "materials.requirements.v1",
                             "BuilderBot", "MinerBot", [requirements |-> bom]) >>)
    /\ UNCHANGED << subscribers, behaviour, log, uncaught, state, checkpoint,
                    ckptWrites, locked_sectors, global_locks, mining_queue,
                    selected_strategy, calls, lastCall, main, thr, budget,
                    inventory, force_delivery, mcall, world, message_data,
                    forcing >>

----------------------------------------------------------------------------
(* Specifications *)

\* MessageBus.__init__
InitBus ==
    /\ subscribers = [topic \in Topics |-> << >>]
    /\ behaviour = [c \in CallbackIds |-> "none"]
    /\ history = << >>
    /\ tasks = << >>
    /\ log = {}
    /\ uncaught = {}

\* BaseAgent.__init__ and MinerBot.__init__ for the agents of set A, apart
\* from the fields a scenario sets itself
InitFields(A) ==
    /\ state = [a \in A |-> "IDLE"]
    /\ ckptWrites = [a \in A |-> 0]
    /\ locked_sectors = [a \in A |-> {}]
    /\ global_locks = [a \in A |-> {}]
    /\ calls = [a \in A |-> 0]
    /\ lastCall = [a \in A |->
                     [new_state |-> "none", reason |-> "none", before |-> "none"]]
    /\ main = [a \in A |-> "new"]
    /\ force_delivery = [a \in A |-> FALSE]
    /\ mcall = [a \in A |-> NoCall]

\* BaseAgent.__init__ and MinerBot.__init__
InitAgents ==
    /\ InitFields(Agents)
    /\ mining_queue = [a \in Agents |-> << >>]
    /\ selected_strategy = [a \in Agents |-> "none"]
    /\ inventory = [a \in Agents |-> EmptyInventory]
    /\ pending_builds = << >>
    /\ message_data = NoData
    /\ world = NoWorld

\* The bus on its own: subscribers, publishers and the worker pool
Init ==
    /\ InitBus
    /\ InitAgents
    /\ checkpoint = [a \in Agents |-> NoCheckpoint]
    /\ thr = [t \in 1..NThreads |-> Idle]
    /\ budget = 0
    /\ forcing = [t \in DOMAIN thr |-> NoIterator]

Next ==
    \/ \E topic \in BusTopics, b \in Behaviours :
         subscribe(topic, b) /\ UNCHANGED agentVars
    \/ \E topic \in PublishedTopics, variant \in MsgVariants :
         Publish(topic, variant) /\ UNCHANGED agentVars
    \/ \E i \in 1..Len(tasks) : DispatchStart(i) /\ UNCHANGED agentVars
    \/ \E i \in 1..Len(tasks) : DispatchInvoke(i) /\ UNCHANGED agentVars

Spec == Init /\ [][Next]_vars

\* Checkpoint files a previous run can have left behind
PriorCheckpoints ==
    {NoCheckpoint}
      \cup {[state |-> s, inventory |-> EmptyInventory, mining_queue |-> << >>,
              selected_strategy |-> "none"] :
              s \in {"PAUSED", "STOPPED"}}

\* One agent's lifecycle under concurrent control operations
InitFsm ==
    /\ InitBus
    /\ InitAgents
    /\ checkpoint \in [Agents -> PriorCheckpoints]
    /\ thr = [t \in 1..NThreads |-> Idle]
    /\ budget = MaxOps
    /\ forcing = [t \in DOMAIN thr |-> NoIterator]

NextFsm ==
    \/ (\E t \in DOMAIN thr, a \in Agents : StopTransition(t, a)) /\ UNCHANGED mineVars
    \/ (\E t \in DOMAIN thr : StopSave(t)) /\ UNCHANGED mineVars
    \/ (\E t \in DOMAIN thr : SaveWrite(t)) /\ UNCHANGED mineVars
    \/ (\E t \in DOMAIN thr, a \in Agents : PauseCheck(t, a)) /\ UNCHANGED mineVars
    \/ (\E t \in DOMAIN thr : PauseTransition(t)) /\ UNCHANGED mineVars
    \/ (\E t \in DOMAIN thr : PauseSave(t)) /\ UNCHANGED mineVars
    \/ (\E t \in DOMAIN thr, a \in Agents : ResumeCheck(t, a)) /\ UNCHANGED mineVars
    \/ (\E t \in DOMAIN thr : ResumeTransition(t)) /\ UNCHANGED mineVars
    \/ (\E t \in DOMAIN thr, a \in Agents : on_manual_start(t, a)) /\ UNCHANGED mineVars
    \/ (\E a \in Agents : StartLoad(a)) /\ UNCHANGED callVars
    \/ (\E a \in Agents : StartTransition(a)) /\ UNCHANGED mineVars
    \/ (\E a \in Agents : LoopPoll(a)) /\ UNCHANGED mineVars
    \/ (\E a \in Agents : CycleDone(a)) /\ UNCHANGED mineVars
    \/ (\E a \in Agents : CycleRaise(a)) /\ UNCHANGED mineVars
    \/ (\E a \in Agents : HandleError(a)) /\ UNCHANGED mineVars

SpecFsm == InitFsm /\ [][NextFsm]_vars

\* The same, for an agent started for the first time (no checkpoint file)
InitFresh ==
    /\ InitBus
    /\ InitAgents
    /\ checkpoint = [a \in Agents |-> NoCheckpoint]
    /\ thr = [t \in 1..NThreads |-> Idle]
    /\ budget = MaxOps
    /\ forcing = [t \in DOMAIN thr |-> NoIterator]

SpecFresh == InitFresh /\ [][NextFsm]_vars

\* test_thread_safety: threads alternating RUNNING/IDLE on one fresh agent
InitStress ==
    /\ InitBus
    /\ InitAgents
    /\ checkpoint = [a \in Agents |-> NoCheckpoint]
    /\ thr = [t \in 1..StressThreads |->
                [op |-> "stress", pc |-> "run", agent |-> "MinerBot",
                 same |-> FALSE, n |-> 0]]
    /\ budget = 0
    /\ forcing = [t \in DOMAIN thr |-> NoIterator]

NextStress ==
    \/ (\E t \in DOMAIN thr : StressRunning(t, thr[t].agent)) /\ UNCHANGED mineVars
    \/ (\E t \in DOMAIN thr : StressIdle(t, thr[t].agent)) /\ UNCHANGED mineVars

SpecStress == InitStress /\ [][NextStress]_vars

\* Holdings and requirements on which the satisfaction check and crafting are
\* evaluated: stone/cobblestone holdings against a requirement for either, and
\* wood/plank holdings against a requirement for either
PoolInventories ==
    {[EmptyInventory EXCEPT !["STONE"] = Q(s), !["COBBLESTONE"] = Q(c)] :
        s \in 0..MaxQty, c \in 0..MaxQty}
WoodInventories ==
    {[EmptyInventory EXCEPT !["WOOD"] = Q(w), !["WOOD_PLANKS"] = Q(k)] :
        w \in 0..MaxWood, k \in 0..MaxQty}

\* The builder's job for the same requirement, with the same quantities
\* collected so far
Collecting(inv, bom) == [NewJob("site_a", bom) EXCEPT !.collected = inv]

\* The builder handles a delivery that adds nothing to the quantities
\* collected for its first job
EvalInventoryReceived ==
    /\ pending_builds # << >>
    /\ Head(pending_builds).status = "waiting_for_materials"
    /\ Head(pending_builds).retry_count = 0
    /\ pending_builds' = on_inventory_received(pending_builds, << >>)
    /\ UNCHANGED << busVars, state, checkpoint, ckptWrites, locked_sectors,
                    global_locks, mining_queue, selected_strategy, calls,
                    lastCall, main, thr, budget, inventory, force_delivery,
                    mcall, world, message_data, forcing >>

InitCoord ==
    /\ InitBus
    /\ InitFields(Agents)
    /\ selected_strategy = [a \in Agents |-> "none"]
    /\ message_data = NoData
    /\ world = NoWorld
    /\ checkpoint = [a \in Agents |-> NoCheckpoint]
    /\ thr = [t \in 1..NThreads |-> Idle]
    /\ budget = 0
    /\ forcing = [t \in DOMAIN thr |-> NoIterator]
    /\ \E q \in 1..MaxQty :
         \/ \E inv \in PoolInventories, item \in StonePool :
              /\ inventory = [a \in Agents |-> inv]
              /\ mining_queue = [a \in Agents |-> << Req(item, q) >>]
              /\ pending_builds = << Collecting(inv, Req(item, q)) >>
         \/ \E inv \in WoodInventories, item \in {"WOOD", "WOOD_PLANKS"} :
              /\ inventory = [a \in Agents |-> inv]
              /\ mining_queue = [a \in Agents |-> << Req(item, q) >>]
              /\ pending_builds = << Collecting(inv, Req(item, q)) >>

NextCoord ==
    \/ \E a \in Agents : EvalRequirementsMet(a)
    \/ \E a \in Agents : EvalTryCraft(a)
    \/ EvalInventoryReceived
    \/ \E a \in Agents : EvalDeduct(a)

SpecCoord == InitCoord /\ [][NextCoord]_vars

\* Dicts handed to the validator: each required field is absent or holds a
\* string, a dict, a UTC timestamp string or a timestamp string without zone
DrawnKinds == {"str", "dict", "ts_utc_z", "ts_naive"}
MessageDicts ==
    UNION {[present -> DrawnKinds] : present \in SUBSET RequiredFields}

InitValidate ==
    /\ InitBus
    /\ InitFields(Agents)
    /\ mining_queue = [a \in Agents |-> << >>]
    /\ selected_strategy = [a \in Agents |-> "none"]
    /\ inventory = [a \in Agents |-> EmptyInventory]
    /\ pending_builds = << >>
    /\ world = NoWorld
    /\ checkpoint = [a \in Agents |-> NoCheckpoint]
    /\ thr = [t \in 1..NThreads |-> Idle]
    /\ budget = 0
    /\ forcing = [t \in DOMAIN thr |-> NoIterator]
    /\ \E d \in MessageDicts : message_data = [data |-> d, result |-> "none"]

NextValidate == ValidateCall

SpecValidate == InitValidate /\ [][NextValidate]_vars

\* Loot dicts and worlds: a barren world where the strategy finds nothing, and
\* one where it finds a STONE or fails
Loot(item, n) == [EmptyInventory EXCEPT ![item] = Q(n)]
Barren == {Yield(NoLoot)}
Stony == {Yield(Loot("STONE", 1)), Raises}

\* The requirement sets left in the queue by a previous run
QueuedRequirements ==
    {Req("STONE", 1),
     Req("STONE", 2) \o Req("COBBLESTONE", 1)}

\* The checkpoint a stopped miner left behind: its queue and its strategy
QueuedQueues ==
    {<< req >> : req \in QueuedRequirements}
        \cup {<< Req("STONE", 1), Req("STONE", 2) \o Req("COBBLESTONE", 1) >>}
MinerCheckpoints ==
    {[state |-> "STOPPED", inventory |-> EmptyInventory,
      mining_queue |-> queue, selected_strategy |-> "grid"] :
        queue \in QueuedQueues}

\* start() has run on the agent: control operations are issued to a started
\* miner
Started(a) == main[a] \notin {"new", "loaded"}

\* One miner working through its queue while control operations arrive.  Its
\* own lock broadcasts, which on_lock_activity ignores, are not dispatched.
InitMine ==
    /\ InitBus
    /\ InitFields(Agents)
    /\ mining_queue = [a \in Agents |-> << >>]
    /\ selected_strategy = [a \in Agents |-> "none"]
    /\ inventory = [a \in Agents |-> EmptyInventory]
    /\ pending_builds = << >>
    /\ message_data = NoData
    /\ world = [positions |-> {<< 0, 0 >>}, yields |-> Stony]
    /\ checkpoint \in [Agents -> MinerCheckpoints]
    /\ thr = [t \in 1..MineThreads |-> Idle]
    /\ budget = MineOps
    /\ forcing = [t \in DOMAIN thr |-> NoIterator]

NextMine ==
    \/ (\E a \in Agents : StartLoad(a)) /\ UNCHANGED callVars
    \/ (\E a \in Agents : StartTransition(a)) /\ UNCHANGED mineVars
    \/ (\E a \in Agents : LoopPoll(a)) /\ UNCHANGED mineVars
    \/ \E a \in Agents : ActWait(a)
    \/ \E a \in Agents : MineEnter(a)
    \/ \E a \in Agents : MineAdd(a)
    \/ \E a \in Agents : MineAnnounce(a)
    \/ \E a \in Agents : MineLoopHead(a)
    \/ \E a \in Agents : MinePoll(a)
    \/ \E a \in Agents : MineExecute(a)
    \/ \E a \in Agents : MineFallback(a)
    \/ \E a \in Agents : MineDeliver(a)
    \/ \E a \in Agents : MineFinallyCheck(a)
    \/ \E a \in Agents : MineFinallyRemove(a)
    \/ \E a \in Agents : MineFinallyRelease(a)
    \/ \E a \in Agents : LoopCrash(a)
    \/ (\E a \in Agents : HandleError(a)) /\ UNCHANGED mineVars
    \/ \E t \in DOMAIN thr, a \in Agents : Started(a) /\ ForceBase(t, a, "stop")
    \/ \E t \in DOMAIN thr : OverrideCheck(t)
    \/ \E t \in DOMAIN thr : OverrideFor(t)
    \/ \E t \in DOMAIN thr : OverrideNext(t)
    \/ \E t \in DOMAIN thr : OverridePublish(t)
    \/ \E t \in DOMAIN thr : OverrideClear(t)
    \/ (\E t \in DOMAIN thr : StopSave(t)) /\ UNCHANGED mineVars
    \/ (\E t \in DOMAIN thr : SaveWrite(t)) /\ UNCHANGED mineVars
    \/ \E t \in DOMAIN thr, a \in Agents : Started(a) /\ on_fulfill(t, a)

SpecMine == InitMine /\ [][NextMine]_vars

\* A world in which no excavation yields anything.  The requirement sets left
\* in the queue cannot be met from the holdings, and the control loop, a thread
\* of its own, keeps running.
UngatherableRequirements ==
    {Req("STONE", 1),
     Req("WOOD_PLANKS", 2),
     Req("STONE", 1) \o Req("COBBLESTONE", 2),
     Req("WOOD", 1) \o Req("WOOD_PLANKS", 1)}

InitFallback ==
    /\ InitBus
    /\ InitFields(Agents)
    /\ mining_queue = [a \in Agents |-> << >>]
    /\ selected_strategy = [a \in Agents |-> "none"]
    /\ inventory = [a \in Agents |-> EmptyInventory]
    /\ pending_builds = << >>
    /\ message_data = NoData
    /\ world = [positions |-> {<< 0, 0 >>}, yields |-> Barren]
    /\ checkpoint \in [Agents ->
                          {[state |-> "STOPPED", inventory |-> EmptyInventory,
                            mining_queue |-> << req >>,
                            selected_strategy |-> "grid"] :
                              req \in UngatherableRequirements}]
    /\ thr = [t \in 1..MineThreads |-> Idle]
    /\ budget = MineOps
    /\ forcing = [t \in DOMAIN thr |-> NoIterator]

\* A step of the control loop inside mine()
MineStep(a) ==
    \/ MineAdd(a) \/ MineAnnounce(a) \/ MineLoopHead(a) \/ MinePoll(a)
    \/ MineExecute(a) \/ MineFallback(a) \/ MineDeliver(a)
    \/ MineFinallyCheck(a) \/ MineFinallyRemove(a) \/ MineFinallyRelease(a)

SpecFallback ==
    /\ InitFallback
    /\ [][NextMine]_vars
    /\ \A a \in Agents : WF_vars(MineStep(a))

\* The miner and the bus of the two-agent runs, apart from the subscriptions
InitPair ==
    /\ behaviour = [c \in CallbackIds |-> "none"]
    /\ history = << >>
    /\ tasks = << >>
    /\ log = {}
    /\ uncaught = {}
    /\ InitFields(Agents)
    /\ mining_queue = [a \in Agents |-> << >>]
    /\ selected_strategy = [a \in Agents |-> "none"]
    /\ inventory = [a \in Agents |-> EmptyInventory]
    /\ pending_builds = << >>
    /\ message_data = NoData
    /\ world = [positions |-> {<< 0, 0 >>},
                yields |-> {Yield(NoLoot), Yield(Loot("WOOD", 1))}]
    /\ checkpoint \in [Agents ->
                          {NoCheckpoint,
                           [state |-> "STOPPED", inventory |-> EmptyInventory,
                            mining_queue |-> << >>, selected_strategy |-> "grid"]}]
    /\ thr = << >>
    /\ budget = 0
    /\ forcing = << >>

\* A builder and a miner on one bus.  The miner is started fresh or from a
\* checkpoint that names a strategy; an excavation yields one WOOD or nothing;
\* the builder's plans need 40 planks, or 2 stone, and it is told to build
\* while the miner is RUNNING.
BillsOfMaterials == {Req("WOOD_PLANKS", 40), Req("STONE", 2)}

\* MinerBot.__init__: its subscription to the builder's requirements
MinerSubscription ==
    [topic \in {"materials.requirements.v1"} |->
        << Handler("MinerBot", "on_requirements_received") >>]

\* MinerBot.__init__ and BuilderBot.__init__: the miner's subscription and the
\* builder's subscription to inventory.v1
BuilderSubscriptions ==
    [topic \in {"materials.requirements.v1", "inventory.v1"} |->
        IF topic = "inventory.v1"
        THEN << Handler("BuilderBot", "on_inventory_received") >>
        ELSE << Handler("MinerBot", "on_requirements_received") >>]

InitEndToEnd ==
    /\ subscribers = MinerSubscription
    /\ InitPair

\* The same with the builder's inventory.v1 handler subscribed
InitBuild ==
    /\ subscribers = BuilderSubscriptions
    /\ InitPair

\* A step of an agent's control loop thread
ControlStep(a) ==
    \/ StartLoad(a) /\ UNCHANGED callVars
    \/ StartTransition(a) /\ UNCHANGED mineVars
    \/ LoopPoll(a) /\ UNCHANGED mineVars
    \/ ActWait(a)
    \/ MineEnter(a)
    \/ MineStep(a)

NextEndToEnd ==
    \/ \E target \in BuildSites, bom \in BillsOfMaterials :
         (\A a \in Agents : state[a] = "RUNNING") /\ on_build_command(target, bom)
    \/ \E i \in 1..Len(tasks) : InvokeRequirements(i)
    \/ (\E a \in Agents : StartLoad(a)) /\ UNCHANGED callVars
    \/ (\E a \in Agents : StartTransition(a)) /\ UNCHANGED mineVars
    \/ (\E a \in Agents : LoopPoll(a)) /\ UNCHANGED mineVars
    \/ \E a \in Agents : ActWait(a)
    \/ \E a \in Agents : MineEnter(a)
    \/ \E a \in Agents : MineAdd(a)
    \/ \E a \in Agents : MineAnnounce(a)
    \/ \E a \in Agents : MineLoopHead(a)
    \/ \E a \in Agents : MinePoll(a)
    \/ \E a \in Agents : MineExecute(a)
    \/ \E a \in Agents : MineFallback(a)
    \/ \E a \in Agents : MineDeliver(a)
    \/ \E a \in Agents : MineFinallyCheck(a)
    \/ \E a \in Agents : MineFinallyRemove(a)
    \/ \E a \in Agents : MineFinallyRelease(a)

\* The same run with the builder handling the deliveries and building the
\* jobs that are ready
NextBuild ==
    \/ NextEndToEnd
    \/ \E i \in 1..Len(tasks) : InvokeInventory(i)
    \/ build_structure

\* The pool workers, the miner's control loop and the builder's control loop
\* keep running
SpecBuild ==
    /\ InitBuild
    /\ [][NextBuild]_vars
    /\ WF_vars(\E i \in 1..Len(tasks) : InvokeRequirements(i))
    /\ WF_vars(\E i \in 1..Len(tasks) : InvokeInventory(i))
    /\ WF_vars(build_structure)
    /\ \A a \in Agents : WF_vars(ControlStep(a))

\* The pool workers and the control loop threads keep running
SpecEndToEnd ==
    /\ InitEndToEnd
    /\ [][NextEndToEnd]_vars
    /\ WF_vars(\E i \in 1..Len(tasks) : InvokeRequirements(i))
    /\ \A a \in Agents : WF_vars(ControlStep(a))

\* Two MinerBot instances on one bus, each subscribed to the lock broadcasts;
\* both read the position of the one player, and every excavation yields the
\* stone asked for
LockSubscribers ==
    [m \in 1..Cardinality(Miners) |->
        Handler(SetToSeq(Miners)[m], "on_lock_activity")]

InitLock ==
    /\ subscribers = [topic \in Topics |->
                        IF topic \in {"lock.acquire", "lock.release"}
                        THEN LockSubscribers ELSE << >>]
    /\ behaviour = [c \in CallbackIds |-> "none"]
    /\ history = << >>
    /\ tasks = << >>
    /\ log = {}
    /\ uncaught = {}
    /\ InitFields(Miners)
    /\ mining_queue = [a \in Miners |-> << >>]
    /\ selected_strategy = [a \in Miners |-> "none"]
    /\ inventory = [a \in Miners |-> EmptyInventory]
    /\ pending_builds = << >>
    /\ message_data = NoData
    /\ world = [positions |-> {<< 0, 0 >>}, yields |-> {Yield(Loot("STONE", 1))}]
    /\ checkpoint = [a \in Miners |->
                       [state |-> "STOPPED", inventory |-> EmptyInventory,
                        mining_queue |-> << Req("STONE", 1) >>,
                        selected_strategy |-> "grid"]]
    /\ thr = << >>
    /\ budget = 0
    /\ forcing = << >>

NextLock ==
    \/ (\E a \in Miners : StartLoad(a)) /\ UNCHANGED callVars
    \/ (\E a \in Miners : StartTransition(a)) /\ UNCHANGED mineVars
    \/ (\E a \in Miners : LoopPoll(a)) /\ UNCHANGED mineVars
    \/ \E a \in Miners : ActWait(a)
    \/ \E a \in Miners : MineEnter(a)
    \/ \E a \in Miners : MineAdd(a)
    \/ \E a \in Miners : MineAnnounce(a)
    \/ \E a \in Miners : MineLoopHead(a)
    \/ \E a \in Miners : MinePoll(a)
    \/ \E a \in Miners : MineExecute(a)
    \/ \E a \in Miners : MineFallback(a)
    \/ \E a \in Miners : MineDeliver(a)
    \/ \E a \in Miners : MineFinallyCheck(a)
    \/ \E a \in Miners : MineFinallyRemove(a)
    \/ \E a \in Miners : MineFinallyRelease(a)
    \/ \E i \in 1..Len(tasks) : InvokeLockActivity(i)

SpecLock == InitLock /\ [][NextLock]_vars

----------------------------------------------------------------------------
(* Properties *)

Range(f) == {f[i] : i \in DOMAIN f}
Finished(t) == t.pc \in {"ok", "dropped_invalid", "dropped_failed"}
IsValid(m) == validate(MsgDict(m))
StateChanges(h, a) ==
    SelectSeq(h, LAMBDA m : m.type = "agent.state_change.v1" /\ m.source = a)

\* C1: a dispatch of a valid message to a callback that raises on every
\* invocation invokes it at most 3 times, and ends dropped after exactly 3
\* invocations.
C1_RetryBound ==
    \A i \in 1..Len(tasks) :
        (behaviour[tasks[i].cb] = "fail" /\ IsValid(tasks[i].msg)) =>
            /\ tasks[i].invocations <= 3
            /\ tasks[i].pc # "ok"
            /\ Finished(tasks[i]) =>
                  (tasks[i].pc = "dropped_failed" /\ tasks[i].invocations = 3)

C1_Witness ==
    \E i \in 1..Len(tasks) :
        /\ behaviour[tasks[i].cb] = "fail" /\ IsValid(tasks[i].msg)
        /\ tasks[i].pc = "dropped_failed" /\ tasks[i].invocations = 3

\* What a step that publishes a valid message does to the tasks, and what holds
\* of every task
C2_PublishStep ==
    (Len(history') = Len(history) + 1 /\ IsValid(history'[Len(history')])) =>
        LET m == history'[Len(history')]
            added == (Len(tasks) + 1)..Len(tasks')
        IN  /\ Len(tasks') = Len(tasks) + Len(subscribers[m.type])
            /\ \A i \in 1..Len(tasks) : tasks'[i] = tasks[i]
            /\ \A i \in added : tasks'[i].msg = m /\ tasks'[i].pc = "queued"
            /\ \A c \in CallbackIds :
                 Cardinality({i \in added : tasks'[i].cb = c})
                   = IF c \in Range(subscribers[m.type]) THEN 1 ELSE 0

C2_TaskState ==
    \A i \in 1..Len(tasks) :
        IsValid(tasks[i].msg) =>
            /\ tasks[i].cb \in Range(subscribers[tasks[i].msg.type])
            /\ (tasks[i].pc = "ok" /\ tasks[i].attempt = 0) =>
                  tasks[i].invocations = 1

\* C2: publishing a valid message submits exactly one dispatch task for each
\* callback subscribed to its type at that moment and none for any other
\* callback; a task whose callback returns at once has invoked it exactly once,
\* and no task ever pairs a callback with a message of a type it is not
\* subscribed to.
C2_OneTaskPerSubscriber == [](C2_TaskState) /\ [][C2_PublishStep]_vars

C2_Witness ==
    /\ Len(history) = 1 /\ IsValid(history[1])
    /\ \E c, d \in CallbackIds :
         /\ c \in Range(subscribers[history[1].type])
         /\ d \in Range(subscribers["other.topic"])
         /\ d \notin Range(subscribers[history[1].type])
         /\ Len(tasks) = 1
         /\ tasks[1].cb = c /\ tasks[1].pc = "ok" /\ tasks[1].invocations = 1

\* C3: only messages that pass validation appear in the history, and no
\* dispatch task exists for a message that fails validation.
C3_PublishValidates ==
    /\ \A i \in 1..Len(history) : IsValid(history[i])
    /\ \A i \in 1..Len(tasks) : IsValid(tasks[i].msg)

\* C4: the dispatch task of a message that fails validation never invokes the
\* callback and never retries.
C4_InvalidNeverDelivered ==
    \A i \in 1..Len(tasks) :
        ~IsValid(tasks[i].msg) =>
            /\ tasks[i].invocations = 0
            /\ tasks[i].attempt = 0
            /\ tasks[i].pc \in {"queued", "dropped_invalid"}

C4_Witness ==
    \E i \in 1..Len(tasks) :
        ~IsValid(tasks[i].msg) /\ tasks[i].pc = "dropped_invalid"

\* C5: every dispatch that ended without a successful callback return has
\* written an error log entry for its message and callback, and no exception
\* escaped a dispatch task or publish.
C5_NoSilentLoss ==
    /\ \A i \in 1..Len(tasks) :
         (Finished(tasks[i]) /\ tasks[i].pc # "ok") =>
            \E e \in log : /\ e.level = "error"
                           /\ e.msg = tasks[i].msg.id
                           /\ e.cb = tasks[i].cb
    /\ uncaught = {}

C5_Witness ==
    \E i \in 1..Len(tasks) :
        /\ tasks[i].pc = "dropped_failed"
        /\ \E e \in log : e.level = "error" /\ e.event = "gave_up" /\ e.cb = tasks[i].cb

\* The step is a transition_state call on agent a
IsCall(a) == calls'[a] = calls[a] + 1

\* A step that is a call naming the current state
C6_IdempotentStep ==
    \A a \in Agents :
        (IsCall(a) /\ lastCall'[a].new_state = state[a]) =>
            /\ state'[a] = state[a]
            /\ StateChanges(history', a) = StateChanges(history, a)

\* C6: a transition_state(S, reason) call made while the state already equals
\* S leaves the state unchanged and publishes no agent.state_change.v1 message.
C6_Idempotent == [][C6_IdempotentStep]_vars

C6_Witness ==
    \E a \in Agents :
        /\ calls[a] > 0
        /\ lastCall[a].before = lastCall[a].new_state
        /\ state[a] = lastCall[a].new_state

\* The save_checkpoint step of a stop() or pause() whose transition was a no-op
C7_NoopStep ==
    \A t \in DOMAIN thr :
        (thr[t].pc = "write" /\ thr[t].same /\ thr'[t].pc # "write") =>
            ckptWrites' = ckptWrites

\* C7: a stop() or pause() whose transition request named the state the actor
\* was already in writes no checkpoint.
C7_NoCheckpointOnNoop == [][C7_NoopStep]_vars

\* A step that is a call naming another state than the current one
C8_ChangeStep ==
    \A a \in Agents :
        (IsCall(a) /\ lastCall'[a].new_state # state[a]) =>
            LET before == StateChanges(history, a)
                after == StateChanges(history', a)
            IN  /\ state'[a] = lastCall'[a].new_state
                /\ Len(after) = Len(before) + 1
                /\ SubSeq(after, 1, Len(before)) = before
                /\ after[Len(after)].payload =
                      [previous_state |-> state[a],
                       new_state |-> lastCall'[a].new_state,
                       reason |-> lastCall'[a].reason]

\* C8: a transition_state(new, reason) call made while the state differs from
\* new sets the state to new and publishes exactly one agent.state_change.v1
\* message from that actor, with previous_state the state before the call,
\* new_state new and reason the reason given.
C8_ChangePublishesOnce == [][C8_ChangeStep]_vars

C8_Witness ==
    \E a \in Agents :
        /\ calls[a] > 0
        /\ lastCall[a].before # lastCall[a].new_state
        /\ Len(StateChanges(history, a)) > 0
        /\ history[Len(history)].payload.reason = lastCall[a].reason

\* Every stress thread has made all its calls
StressDone == \A t \in DOMAIN thr : thr[t].n = 2 * StressIters

\* C9: with several threads each alternating transition_state(RUNNING) and
\* transition_state(IDLE) on one actor, no thread gets stuck before it has made
\* all its calls, the state is always a valid AgentState, and the number of
\* state_change messages never exceeds the number of calls made.
C9_ThreadSafety ==
    /\ \A a \in Agents :
         /\ state[a] \in AgentState
         /\ Len(StateChanges(history, a)) <= calls[a]
         /\ StressDone => calls[a] = Cardinality(DOMAIN thr) * 2 * StressIters
    /\ StressDone \/ ENABLED NextStress

C9_Witness ==
    /\ StressDone
    /\ \E a \in Agents :
         /\ calls[a] > Len(StateChanges(history, a))
         /\ Len(StateChanges(history, a)) > 2

\* The transitions of the lifecycle diagram
SpecifiedTransitions ==
    {<< "IDLE", "RUNNING" >>, << "RUNNING", "PAUSED" >>, << "PAUSED", "RUNNING" >>}
      \cup {<< s, "STOPPED" >> : s \in {"IDLE", "RUNNING", "PAUSED"}}
      \cup {<< s, "ERROR" >> : s \in {"IDLE", "RUNNING", "PAUSED"}}

C10_Step ==
    \A a \in Agents :
        state'[a] # state[a] => << state[a], state'[a] >> \in SpecifiedTransitions

\* C10: every change of an actor's lifecycle state is one of the specified
\* transitions.
C10_OnlySpecifiedTransitions == [][C10_Step]_vars

\* A step that changes an actor's state is a transition_state call that
\* appends one state_change message of that actor
C11_Step ==
    \A a \in Agents :
        state'[a] # state[a] =>
            /\ IsCall(a)
            /\ Len(StateChanges(history', a)) = Len(StateChanges(history, a)) + 1

\* C11: the lifecycle state changes only through transition_state: every
\* change of an actor's state, the one made by loading a checkpoint included,
\* publishes one agent.state_change.v1 message.
C11_OnlyThroughTransition == [][C11_Step]_vars

\* The evaluations of _requirements_met made so far on a one-item requirement
\* for a material of set S
Checked(a, S) ==
    /\ mcall[a].pc \in {"checked", "rechecked"}
    /\ Len(mcall[a].req) = 1
    /\ mcall[a].req[1].item \in S

\* C17: a requirement of q STONE or of q COBBLESTONE is found satisfied
\* exactly when the STONE and COBBLESTONE holdings together reach q.
C17_Pooling ==
    \A a \in Agents :
        Checked(a, StonePool) =>
            (mcall[a].met <=>
                inventory[a]["STONE"] + inventory[a]["COBBLESTONE"]
                    >= Q(mcall[a].req[1].count))

C17_Witness ==
    \E a \in Agents :
        /\ mcall[a].pc = "checked" /\ mcall[a].met
        /\ mcall[a].req = Req("STONE", 10)
        /\ inventory[a] = [EmptyInventory EXCEPT !["STONE"] = Q(4),
                                                 !["COBBLESTONE"] = Q(6)]

\* What the holdings of a material with a conversion rule amount to when
\* convertible stock is counted: holdings[m] + holdings[source] / ratio
Convertible(inv, m) ==
    LET recipe == CRAFTING_RECIPES[m]
        source == CHOOSE g \in DOMAIN recipe : TRUE
    IN  inv[m] + (inv[source] * Quarter) \div recipe[source]

\* C18: the satisfaction check counts convertible stock: a requirement of q
\* WOOD_PLANKS is found satisfied exactly when the planks held plus four
\* planks for each WOOD held reach q.
C18_ConversionCounted ==
    \A a \in Agents :
        Checked(a, {"WOOD_PLANKS"}) =>
            (mcall[a].met <=>
                Convertible(inventory[a], "WOOD_PLANKS")
                    >= Q(mcall[a].req[1].count))

\* The lock broadcasts of actor a for sector S at positions lo+1..hi of the
\* history
LockEvents(a, event_type, S, lo, hi) ==
    {i \in (lo + 1)..hi : /\ history[i].type = event_type
                          /\ history[i].source = a
                          /\ history[i].payload.sector = S}

\* C12: when a transition_state call that forced a miner into STOPPED or ERROR
\* is over, a lock.release has been published since the state was forced for
\* every sector the miner held then, and locked_sectors is empty.
C12_ForcedRelease ==
    \A t \in DOMAIN forcing :
        forcing[t].ended # "no" =>
            /\ forcing[t].left = {}
            /\ \A S \in forcing[t].held :
                 LockEvents(forcing[t].agent, "lock.release", S,
                            forcing[t].since, forcing[t].upto) # {}

\* C15: when a mine() call that added a sector to locked_sectors is over, the
\* sector is no longer in locked_sectors and a lock.release for it follows its
\* lock.acquire in the history.
C15_NoLockLeak ==
    \A a \in DOMAIN mcall :
        (mcall[a].pc = "returned" /\ mcall[a].acquired # NoSector) =>
            /\ mcall[a].acquired \notin locked_sectors[a]
            /\ LockEvents(a, "lock.release", mcall[a].acquired,
                          mcall[a].acquireAt, Len(history)) # {}

\* C13: a mine() call whose candidate sector S is in the caller's global_locks
\* does not add S to locked_sectors (so broadcasts no lock.acquire for it) and
\* settles on another sector, one that is not in global_locks.
C13_GlobalConflictShifts ==
    \A a \in DOMAIN mcall :
        (mcall[a].n > 0 /\ mcall[a].first \in mcall[a].observed) =>
            /\ mcall[a].acquired # mcall[a].first
            /\ mcall[a].sector # mcall[a].first
            /\ mcall[a].sector \notin mcall[a].observed

Handled == {i \in 1..Len(tasks) : tasks[i].pc = "ok"}

C16_Step ==
    \A i \in 1..Len(tasks) :
        (tasks[i].pc # "ok" /\ tasks'[i].pc = "ok") =>
            LET a == tasks[i].cb.agent
                m == tasks[i].msg
            IN  /\ locked_sectors' = locked_sectors
                /\ \A b \in DOMAIN global_locks \ {a} :
                     global_locks'[b] = global_locks[b]
                /\ global_locks'[a] =
                     IF m.source = a THEN global_locks[a]
                     ELSE IF m.type = "lock.acquire"
                     THEN global_locks[a] \cup {m.payload.sector}
                     ELSE global_locks[a] \ {m.payload.sector}

\* C16: handling a lock.acquire or lock.release whose source is the receiver
\* changes neither of its lock sets; one from another actor adds the sector to
\* global_locks (acquire) or removes it (release); locked_sectors is never
\* changed by the handler.
C16_LockBroadcastEffect == [][C16_Step]_vars

\* An actor has handled a broadcast of its own, another actor's lock.acquire
\* (the sector is in its global_locks) and another actor's lock.release
C16_Witness ==
    \E i, j, k \in Handled :
        /\ tasks[i].msg.source = tasks[i].cb.agent
        /\ tasks[j].msg.source # tasks[j].cb.agent
        /\ tasks[j].msg.type = "lock.acquire"
        /\ tasks[j].msg.payload.sector \in global_locks[tasks[j].cb.agent]
        /\ tasks[k].msg.source # tasks[k].cb.agent
        /\ tasks[k].msg.type = "lock.release"
        /\ tasks[k].cb.agent = tasks[j].cb.agent

\* The holdings of a mine() call about to deliver meet its requirement unless
\* delivery was forced, and it made no more than max_attempts gather attempts
C19_Bounded ==
    \A a \in DOMAIN mcall :
        /\ mcall[a].attempts <= max_attempts
        /\ mcall[a].pc = "deliver" =>
              \/ _requirements_met(inventory[a], mcall[a].req)
              \/ force_delivery[a]

Requested(bom) ==
    \E i \in Requests : history[i].payload.requirements = bom

\* The miner has published an inventory.v1 message with these quantities
Delivered(bom) ==
    \E i \in 1..Len(history) :
        /\ history[i].type = "inventory.v1"
        /\ history[i].source \in Miners
        /\ history[i].payload.inventory = bom

\* C20: every bill of materials published to a running miner is eventually
\* followed by an inventory.v1 message of the miner with the same quantities.
C20_EventuallyDelivered ==
    \A bom \in BillsOfMaterials :
        [](Requested(bom) => <>Delivered(bom))

\* A dict in which every required field is present and holds a value of the
\* declared type, the timestamp being ISO 8601 with a zone
well_formed(d) ==
    /\ RequiredFields \subseteq DOMAIN d
    /\ \A f \in RequiredFields : declared_type(f, d[f])
    /\ fromisoformat(ts_replace_Z(d["timestamp"])) = "aware"

\* C26: validate raises for every dict missing a required field or holding a
\* mistyped field (status and context included), and returns true for every
\* dict whose required fields are all present and correctly typed.
C26_ValidatorComplete ==
    message_data.result # "none" =>
        (message_data.result = "returned_true" <=> well_formed(message_data.data))

\* The builder has judged the quantities collected for its first job
Judged ==
    /\ pending_builds # << >>
    /\ \/ Head(pending_builds).status = "READY_TO_BUILD"
       \/ Head(pending_builds).retry_count > 0

\* C27: for every requirement set and every map of quantities, the builder's
\* completeness check gives the verdict of the miner's _requirements_met.
C27_SameVerdict ==
    \A a \in DOMAIN mcall :
        (mcall[a].pc = "checked" /\ Judged
         /\ Head(pending_builds).collected = inventory[a]
         /\ Head(pending_builds).bom = mcall[a].req)
        => (mcall[a].met <=> Head(pending_builds).status = "READY_TO_BUILD")

\* What _try_craft may do for one required material: H the holdings before,
\* G the holdings after
craft_effect(H, G, item, count) ==
    LET shortfall == Q(count) - H[item]
        has_rule == item \in DOMAIN CRAFTING_RECIPES
        sources == IF has_rule THEN DOMAIN CRAFTING_RECIPES[item] ELSE {}
        \* the ratio of source g is CRAFTING_RECIPES[item][g] / Quarter
        used(g) == shortfall * CRAFTING_RECIPES[item][g]
        covered == \A g \in sources : H[g] * Quarter >= used(g)
    IN  IF shortfall > 0 /\ has_rule /\ covered
        THEN /\ G[item] = H[item] + shortfall
             /\ \A g \in sources : G[g] * Quarter = H[g] * Quarter - used(g)
             /\ \A m \in DOMAIN H \ (sources \cup {item}) : G[m] = H[m]
        ELSE G = H

C29_ExactDeduction ==
    \A a \in DOMAIN mcall :
        (mcall[a].pc = "deducted" /\ Len(mcall[a].req) = 1) =>
            LET m == mcall[a].req[1].item
                R == Q(mcall[a].req[1].count)
                H == mcall[a].held
                G == inventory[a]
                sibling == CHOOSE x \in StonePool : x # m
            IN  IF m \in StonePool
                THEN /\ G[m] = H[m] - Min(H[m], R)
                     /\ G[sibling] = H[sibling] - (R - Min(H[m], R))
                     /\ G["STONE"] + G["COBBLESTONE"]
                          = H["STONE"] + H["COBBLESTONE"] - R
                     /\ \A x \in DOMAIN H \ StonePool : G[x] = H[x]
                ELSE /\ G[m] = H[m] - R
                     /\ \A x \in DOMAIN H \ {m} : G[x] = H[x]

\* A delivery of 5 COBBLESTONE from 2 COBBLESTONE and 4 STONE took the 2 and
\* then 3 of the STONE
C29_Witness ==
    \E a \in DOMAIN mcall :
        /\ mcall[a].pc = "deducted"
        /\ mcall[a].req = Req("COBBLESTONE", 5)
        /\ mcall[a].held["COBBLESTONE"] = Q(2)
        /\ mcall[a].held["STONE"] = Q(4)
        /\ inventory[a]["COBBLESTONE"] = 0
        /\ inventory[a]["STONE"] = Q(1)

\* C24: when a cycle raises, the actor's state becomes ERROR and its
\* locked_sectors are empty after the transition; the error hook runs only
\* after that transition and at most once; and the control loop thread never
\* polls or starts a cycle again.
C24_CrashPolicy ==
    [][\A a \in DOMAIN main :
          /\ (main[a] # "crashed" /\ main'[a] = "crashed")
                => /\ main[a] \in {"cycle", "raised"}
                   /\ state'[a] = "ERROR"
                   /\ locked_sectors'[a] = {}
          /\ (main[a] # "handled" /\ main'[a] = "handled")
                => (main[a] = "crashed" /\ locked_sectors'[a] = {})
          /\ main[a] = "crashed" => main'[a] \in {"crashed", "handled"}
          /\ main[a] = "handled" => main'[a] = "handled"]_vars

\* A cycle raised, the state was forced to ERROR and the error hook has run
C24_Witness ==
    \E a \in DOMAIN main :
        /\ main[a] = "handled"
        /\ lastCall[a].new_state = "ERROR"
        /\ state[a] = "ERROR"
        /\ locked_sectors[a] = {}

\* C22: the checkpoint is loaded before the control loop begins, and the
\* actor enters its loop in the saved state when that is RUNNING, IDLE or
\* PAUSED, and in the default start state when it is STOPPED or ERROR or
\* there is no checkpoint.  (calls = 0: no control operation has made a
\* transition or written the file since the actor was constructed.)
C22_SavedStateHonored ==
    [][\A a \in DOMAIN main :
          (main[a] = "loaded" /\ main'[a] = "loop" /\ calls[a] = 0)
          => state'[a] = IF checkpoint[a].state \in {"RUNNING", "IDLE", "PAUSED"}
                         THEN checkpoint[a].state ELSE "RUNNING"]_vars

\* C23: every stop() and every pause() that finds the actor RUNNING writes
\* the checkpoint, and the state recorded is the state the call has just
\* entered: STOPPED for stop(), PAUSED for pause().
C23_CheckpointOnPauseAndStop ==
    [][\A t \in DOMAIN thr :
          (thr[t].op \in {"stop", "pause"} /\ thr[t].pc = "write"
           /\ thr'[t].pc # "write")
          => LET a == thr[t].agent
             IN  /\ ckptWrites'[a] = ckptWrites[a] + 1
                 /\ checkpoint'[a].state =
                        IF thr[t].op = "stop" THEN "STOPPED" ELSE "PAUSED"]_vars

\* C25: STOPPED and ERROR are terminal for the control loop: the loop starts
\* no cycle once a transition made while it was running has left STOPPED or
\* ERROR (the latest transition_state call is not the one of start() and its
\* previous state was STOPPED or ERROR).
C25_Terminal ==
    [][\A a \in DOMAIN main :
          (main[a] = "loop" /\ main'[a] = "cycle")
          => ~(/\ lastCall[a].before \in {"STOPPED", "ERROR"}
               /\ lastCall[a].reason # "Agent startup initiated")]_vars

\* C30: a mine() call tests at most two candidate sectors; when the first is
\* in locked_sectors or in global_locks it tests the sector of the shifted
\* site as its second and last candidate; and a call refused on its last
\* candidate returns with no sector acquired, no message published and
\* neither lock set changed.
C30_ShiftAndRetryOnce ==
    [][\A a \in DOMAIN mcall :
          mcall'[a].n = mcall[a].n + 1 =>
              LET call == mcall'[a]
                  conflicts == locked_sectors[a] \cup global_locks[a]
              IN  /\ call.examined <= 2
                  /\ call.first \in conflicts
                       => (call.examined = 2 /\ call.sector # call.first)
                  /\ call.outcome \in {"abort_local", "abort_global"}
                       => /\ call.acquired = NoSector
                          /\ call.pc = "returned"
                          /\ UNCHANGED << locked_sectors, global_locks,
                                          history >>]_vars

\* A job at the site is waiting for materials; is ready to build
Waiting(target) ==
    \E i \in 1..Len(pending_builds) :
        /\ pending_builds[i].location = target
        /\ pending_builds[i].status = "waiting_for_materials"
Ready(target) ==
    \E i \in 1..Len(pending_builds) :
        /\ pending_builds[i].location = target
        /\ pending_builds[i].status = "READY_TO_BUILD"

\* C21: every build job with status waiting_for_materials eventually becomes
\* READY_TO_BUILD, and a job never stays waiting once retry_limit deliveries
\* have failed to complete it.
C21_LeavesWaiting ==
    /\ [](\A i \in 1..Len(pending_builds) :
             pending_builds[i].status = "waiting_for_materials"
                => pending_builds[i].retry_count < retry_limit)
    /\ \A target \in BuildSites : [](Waiting(target) => <>Ready(target))

\* The inventory.v1 messages an actor has published
Deliveries(a) ==
    {i \in 1..Len(history) :
        history[i].type = "inventory.v1" /\ history[i].source = a}

\* C31: whenever mine() has injected simulated resources for a requirement,
\* it had made all max_attempts gather attempts for it in the same call.
C31_InjectionAfterBound ==
    \A a \in DOMAIN mcall :
        mcall[a].injected => mcall[a].attempts = max_attempts

\* C39: while the miner's state is STOPPED and a mine() call is in progress,
\* the call injects no fallback resources, publishes no inventory.v1 and
\* leaves mining_queue as it is.
C39_StoppedDeliversNothing ==
    [][\A a \in DOMAIN mcall :
          (main[a] = "mine" /\ state[a] = "STOPPED")
          => /\ mcall'[a].injected = mcall[a].injected
             /\ inventory'[a] = inventory[a]
             /\ mining_queue'[a] = mining_queue[a]
             /\ \A i \in Len(history) + 1 .. Len(history') :
                    ~(history'[i].type = "inventory.v1"
                      /\ history'[i].source = a)]_vars

\* The inventory.v1 messages an actor publishes in a step
NewDeliveries(a) ==
    {i \in Len(history) + 1 .. Len(history') :
        history'[i].type = "inventory.v1" /\ history'[i].source = a}

\* A step removes the head of an actor's mining_queue
HeadRemoved(a) ==
    /\ mining_queue[a] # << >>
    /\ mining_queue'[a] = Tail(mining_queue[a])

C34_HoldingsNonNegative ==
    \A a \in Agents : \A item \in Materials : inventory[a][item] >= 0

\* C35: whenever mine() is about to execute the strategy at mining_loc, the
\* sector of mining_loc is in the miner's locked_sectors.
C35_WorksInsideHeldSector ==
    \A a \in Agents :
        (main[a] = "mine" /\ mcall[a].pc = "execute")
        => sector_of(mcall[a].mining_loc) \in locked_sectors[a]

\* The sectors named in the lock broadcasts published so far
BroadcastSectors ==
    {history[i].payload.sector :
        i \in {j \in 1..Len(history) :
                  history[j].type \in {"lock.acquire", "lock.release"}}}

\* C36: for each actor and sector, the lock.release broadcasts are never more
\* than the lock.acquire broadcasts.
C36_ReleasesNotDuplicated ==
    \A a \in Agents : \A S \in BroadcastSectors :
        Cardinality(LockEvents(a, "lock.release", S, 0, Len(history)))
            <= Cardinality(LockEvents(a, "lock.acquire", S, 0, Len(history)))

\* No miner has a lock.release still to publish, and every task of
\* on_lock_activity submitted to the pool has finished
LockBroadcastsDispatched ==
    /\ \A b \in Miners : mcall[b].pc # "release"
    /\ \A i \in 1..Len(tasks) :
          tasks[i].cb.handler = "on_lock_activity"
          => tasks[i].pc \in {"ok", "dropped_invalid", "dropped_failed"}

\* C37: once every lock broadcast has been dispatched, a sector that no other
\* miner holds is absent from a miner's global_locks.
C37_ObservedLocksConverge ==
    LockBroadcastsDispatched =>
        \A a \in Miners : \A S \in global_locks[a] :
            \E b \in Miners \ {a} : S \in locked_sectors[b]

\* C38: an actor's state_change messages form a chain, each previous_state
\* being the new_state of the message before it, and the last new_state is
\* the actor's current state.
C38_TransitionsSerialized ==
    \A a \in Agents :
        LET sc == StateChanges(history, a)
        IN  /\ \A i \in 1..(Len(sc) - 1) :
                  sc[i + 1].payload.previous_state = sc[i].payload.new_state
            /\ sc # << >> => sc[Len(sc)].payload.new_state = state[a]

\* C38 witness: calls of at least two threads have interleaved and three
\* or more changes were published
C38_Witness ==
    /\ Cardinality({t \in DOMAIN thr : thr[t].n > 0 /\ thr[t].n < 2 * StressIters}) >= 2
    /\ \E a \in Agents : Len(StateChanges(history, a)) >= 3

\* A started agent on which only stop() and pause() are called, from the pool
\* workers, while its control loop runs
NextCheckpoint ==
    \/ (\E a \in Agents : StartLoad(a)) /\ UNCHANGED callVars
    \/ (\E a \in Agents : StartTransition(a)) /\ UNCHANGED mineVars
    \/ (\E a \in Agents : LoopPoll(a)) /\ UNCHANGED mineVars
    \/ (\E a \in Agents : CycleDone(a)) /\ UNCHANGED mineVars
    \/ (\E t \in DOMAIN thr, a \in Agents : Started(a) /\ StopTransition(t, a))
          /\ UNCHANGED mineVars
    \/ (\E t \in DOMAIN thr : StopSave(t)) /\ UNCHANGED mineVars
    \/ (\E t \in DOMAIN thr, a \in Agents : Started(a) /\ PauseCheck(t, a))
          /\ UNCHANGED mineVars
    \/ (\E t \in DOMAIN thr : PauseTransition(t)) /\ UNCHANGED mineVars
    \/ (\E t \in DOMAIN thr : PauseSave(t)) /\ UNCHANGED mineVars
    \/ (\E t \in DOMAIN thr : SaveWrite(t)) /\ UNCHANGED mineVars

SpecCheckpoint == InitFresh /\ [][NextCheckpoint]_vars

\* A transition_state call with this reason changed the actor's state
Transitioned(a, reason) ==
    \E i \in 1..Len(history) :
        /\ history[i].type = "agent.state_change.v1"
        /\ history[i].source = a
        /\ history[i].payload.reason = reason

\* A pause() and a stop() on the actor have both made their transition and
\* returned: no call is in progress
PauseAndStopReturned(a) ==
    /\ Transitioned(a, "Agent received pause command")
    /\ Transitioned(a, "Agent received stop command")
    /\ \A t \in DOMAIN thr : thr[t].op = "none"

\* C40: after a pause() and a stop() on an actor have both returned, the state
\* recorded in its checkpoint is its current state.
C40_CheckpointAgrees ==
    \A a \in Agents :
        PauseAndStopReturned(a) => checkpoint[a].state = state[a]

----------------------------------------------------------------------------
(* transition_state under _state_lock, with a subscriber of
   agent.state_change.v1 that calls back into the same actor *)

\* What a call made on the actor asks for
ReentrantOps == {"transition", "stop", "pause"}
requested_state(op) ==
    IF op = "stop" THEN "STOPPED" ELSE IF op = "pause" THEN "PAUSED" ELSE "RUNNING"
requested_reason(op) ==
    IF op = "stop" THEN "Agent received stop command"
    ELSE IF op = "pause" THEN "Agent received pause command"
    ELSE "Agent startup initiated"

\* A thread is inside `with self._state_lock` of the actor
LockHeld(a) ==
    \E t \in DOMAIN thr : thr[t].agent = a /\ thr[t].pc \in {"locked", "published"}

\* The id of the actor's latest state_change message
LastChangeId(a) ==
    LET sc == StateChanges(history, a) IN sc[Len(sc)].id

\* Mutant of publish_waits_for: publish runs the subscribers itself and
\* returns when they are done
publish_waits_for_subscribers(tsk, id) ==
    {i \in 1..Len(tsk) : tsk[i].msg.id = id /\ ~Finished(tsk[i])}

\* MessageBus.publish: the tasks it waits for before it returns.  It submits
\* them to the executor and returns at once.
publish_waits_for(tsk, id) == {}

\* A thread calls transition_state, stop() or pause() on the actor
CallStart(t, a, op) ==
    /\ thr[t].op = "none" /\ budget > 0
    /\ thr' = [thr EXCEPT ![t] =
                  [Idle EXCEPT !.op = op, !.agent = a,
                               !.pc = IF op = "pause" THEN "check" ELSE "acquire"]]
    /\ budget' = budget - 1
    /\ UNCHANGED << busVars, state, checkpoint, ckptWrites, locked_sectors,
                    global_locks, mining_queue, selected_strategy, calls,
                    lastCall, main, mineVars >>

\* A pool worker runs _dispatch for a task of the subscriber: the message is
\* validated and the callback invoked; it returns, or it calls
\* transition_state, stop() or pause() on the actor that published
on_change(t, i) ==
    /\ thr[t].op = "none"
    /\ tasks[i].pc = "queued"
    /\ tasks[i].cb.handler = "on_change"
    /\ LET v == dispatch_validate(tasks[i])
           r == dispatch_attempt(v.task, "return")
       IN  /\ v.task.pc = "running"
           /\ \/ /\ tasks' = [tasks EXCEPT ![i] = r.task]
                 /\ log' = log \cup v.logs \cup r.logs
                 /\ UNCHANGED << thr, budget >>
              \/ /\ budget > 0
                 /\ \E op \in ReentrantOps :
                      thr' = [thr EXCEPT ![t] =
                                [Idle EXCEPT !.op = op, !.agent = tasks[i].cb.agent,
                                             !.n = i,
                                             !.pc = IF op = "pause" THEN "check"
                                                    ELSE "acquire"]]
                 /\ tasks' = [tasks EXCEPT ![i] = v.task]
                 /\ log' = log \cup v.logs
                 /\ budget' = budget - 1
    /\ UNCHANGED << subscribers, behaviour, history, uncaught, state, checkpoint,
                    ckptWrites, locked_sectors, global_locks, mining_queue,
                    selected_strategy, calls, lastCall, main, mineVars >>

\* BaseAgent.pause: if self.state == AgentState.RUNNING
PauseTest(t) ==
    /\ thr[t].pc = "check"
    /\ thr' = [thr EXCEPT ![t].pc =
                  IF state[thr[t].agent] = "RUNNING" THEN "acquire" ELSE "return"]
    /\ UNCHANGED << busVars, state, checkpoint, ckptWrites, locked_sectors,
                    global_locks, mining_queue, selected_strategy, calls,
                    lastCall, main, budget, mineVars >>

\* with self._state_lock: the lock is acquired when no thread holds it
LockAcquire(t) ==
    /\ thr[t].pc = "acquire"
    /\ ~LockHeld(thr[t].agent)
    /\ thr' = [thr EXCEPT ![t].pc = "locked"]
    /\ UNCHANGED << busVars, state, checkpoint, ckptWrites, locked_sectors,
                    global_locks, mining_queue, selected_strategy, calls,
                    lastCall, main, budget, mineVars >>

\* The body of transition_state under the lock: the state is assigned and the
\* notification handed to bus.publish
LockedTransition(t) ==
    /\ thr[t].pc = "locked"
    /\ BaseTransitionState(thr[t].agent, requested_state(thr[t].op),
                           requested_reason(thr[t].op))
    /\ thr' = [thr EXCEPT ![t].pc = "published",
                          ![t].same = (state[thr[t].agent]
                                          = requested_state(thr[t].op))]
    /\ UNCHANGED << subscribers, behaviour, log, uncaught, checkpoint, ckptWrites,
                    locked_sectors, global_locks, mining_queue, selected_strategy,
                    main, budget, mineVars >>

\* bus.publish returns and the with block is left; the MinerBot override finds
\* no locked sectors; stop() and pause() go on to save_checkpoint()
LockRelease(t) ==
    /\ thr[t].pc = "published"
    /\ thr[t].same \/ publish_waits_for(tasks, LastChangeId(thr[t].agent)) = {}
    /\ thr' = [thr EXCEPT ![t].pc =
                  IF thr[t].op \in {"stop", "pause"} THEN "save" ELSE "return"]
    /\ UNCHANGED << busVars, state, checkpoint, ckptWrites, locked_sectors,
                    global_locks, mining_queue, selected_strategy, calls,
                    lastCall, main, budget, mineVars >>

\* The call returns; a subscriber's callback returns to _dispatch with it
CallReturn(t) ==
    /\ thr[t].pc = "return"
    /\ IF thr[t].n > 0
       THEN LET r == dispatch_attempt(tasks[thr[t].n], "return")
            IN  /\ tasks' = [tasks EXCEPT ![thr[t].n] = r.task]
                /\ log' = log \cup r.logs
       ELSE UNCHANGED << tasks, log >>
    /\ thr' = [thr EXCEPT ![t] = Idle]
    /\ UNCHANGED << subscribers, behaviour, history, uncaught, state, checkpoint,
                    ckptWrites, locked_sectors, global_locks, mining_queue,
                    selected_strategy, calls, lastCall, main, budget, mineVars >>

\* The steps of one thread
ThreadStep(t) ==
    \/ \E a \in Agents, op \in ReentrantOps : CallStart(t, a, op)
    \/ \E i \in 1..Len(tasks) : on_change(t, i)
    \/ PauseTest(t)
    \/ LockAcquire(t)
    \/ LockedTransition(t)
    \/ LockRelease(t)
    \/ (StopSave(t) /\ UNCHANGED mineVars)
    \/ (PauseSave(t) /\ UNCHANGED mineVars)
    \/ (SaveWrite(t) /\ UNCHANGED mineVars)
    \/ CallReturn(t)

\* One subscriber of agent.state_change.v1
InitReentry ==
    /\ subscribers = [topic \in Topics |->
                        IF topic = "agent.state_change.v1"
                        THEN << Handler("MinerBot", "on_change") >> ELSE << >>]
    /\ behaviour = [c \in CallbackIds |-> "none"]
    /\ history = << >>
    /\ tasks = << >>
    /\ log = {}
    /\ uncaught = {}
    /\ InitAgents
    /\ checkpoint = [a \in Agents |-> NoCheckpoint]
    /\ thr = [t \in 1..ReentryThreads |-> Idle]
    /\ budget = ReentryCalls
    /\ forcing = [t \in DOMAIN thr |-> NoIterator]

NextReentry ==
    \/ \E t \in DOMAIN thr, a \in Agents, op \in ReentrantOps : CallStart(t, a, op)
    \/ \E t \in DOMAIN thr, i \in 1..Len(tasks) : on_change(t, i)
    \/ \E t \in DOMAIN thr : PauseTest(t)
    \/ \E t \in DOMAIN thr : LockAcquire(t)
    \/ \E t \in DOMAIN thr : LockedTransition(t)
    \/ \E t \in DOMAIN thr : LockRelease(t)
    \/ (\E t \in DOMAIN thr : StopSave(t)) /\ UNCHANGED mineVars
    \/ (\E t \in DOMAIN thr : PauseSave(t)) /\ UNCHANGED mineVars
    \/ (\E t \in DOMAIN thr : SaveWrite(t)) /\ UNCHANGED mineVars
    \/ \E t \in DOMAIN thr : CallReturn(t)

\* Every thread keeps running
SpecReentry ==
    /\ InitReentry
    /\ [][NextReentry]_vars
    /\ \A t \in 1..ReentryThreads : WF_vars(ThreadStep(t))

\* C33: every transition_state call, a subscriber's call on the publishing
\* actor included, eventually acquires the lock and returns.
C33_CallsReturn ==
    \A t \in 1..ReentryThreads : (thr[t].pc = "acquire") ~> (thr[t].op = "none")

\* C33 witness: a transition has published under the lock and not yet left
\* it, and the subscriber's callback for that message waits for the lock on the
\* same actor
C33_Witness ==
    \E t, u \in DOMAIN thr :
        /\ thr[t].pc = "published" /\ ~thr[t].same
        /\ thr[u].pc = "acquire" /\ thr[u].n > 0
        /\ thr[u].agent = thr[t].agent
        /\ tasks[thr[u].n].msg.id = LastChangeId(thr[t].agent)

====

